---------------------------- MODULE Spec2Model ----------------------------
(***************************************************************************)
(* REMA (Real Estate Market Assistant): the valuation pipeline and the     *)
(* inventory query pipeline, as seen from the frontend API layer           *)
(* (api/properties.ts), the calculator page, the properties page and the   *)
(* backend contract the frontend talks to.                                 *)
(*                                                                         *)
(* The backend (FastAPI) is not part of the sources at hand; the           *)
(* definitions that stand for it (Classify, the predict endpoint, the      *)
(* query engine) follow the design document and are marked as such.        *)
(***************************************************************************)
EXTENDS Integers, Sequences, FiniteSets, TLC

VARIABLES
    call,       \* one invocation of calculatePrice: its argument, request, outcome
    formData,   \* CalculatePage: the form state
    result,     \* CalculatePage: result state (None or <<{predicted, valuation}>>)
    loading,    \* CalculatePage: loading flag
    cls,        \* one evaluation of classify(listedPrice, predictedPrice)
    pg,         \* one page request against a query with a given match count
    filters,        \* PropertiesPage: the filters of the sidebar
    sortBy,         \* PropertiesPage: sort key
    searchQuery,    \* PropertiesPage: text of the search box
    debouncedSearch,\* PropertiesPage: debounced search text
    timers,         \* PropertiesPage: pending debounce timeouts, each with its text
    currentPage,    \* PropertiesPage: requested page
    totalPages,     \* PropertiesPage: page count of the last response
    totalCount,     \* PropertiesPage: match count of the last response
    properties,     \* PropertiesPage: the properties displayed
    listLoading,    \* PropertiesPage: loading flag
    inflight,       \* list requests sent and not yet answered, oldest first
    shown,          \* the request whose answer was applied last, and how it ended
    steps,          \* number of user and timer events so far
    disp,       \* one valuation percentage as the pages present it
    wlp,        \* WatchlistPage: ids asked for, lookups in flight, properties shown
    api,        \* one invocation of apiFetch: the response and how the call ended
    auth,       \* AuthProvider state, the backend's account and watchlist calls
    opp,        \* OpportunitiesPage: filters, page, requests in flight
    chat,       \* ChatWidget: messages, input, isTyping, request in flight
    nav,        \* one evaluation of getPageNumbers for a page and a page count
    card        \* one property as fetched and the type label of its card

calcVars == <<call, formData, result, loading>>
listVars == <<filters, sortBy, searchQuery, debouncedSearch, timers,
              currentPage, totalPages, totalCount, properties, listLoading,
              inflight, shown, steps>>
moreVars == <<disp, wlp, api, auth, opp, chat>>
oldVars == <<call, formData, result, loading, cls, pg, listVars>>
viewVars == <<nav, card>>
vars == <<call, formData, result, loading, cls, pg, listVars, moreVars,
          viewVars>>

-----------------------------------------------------------------------------
(* JavaScript values.  A missing (undefined) string is Absent, a null      *)
(* category is NullV, an optional number is None or Some(n).               *)

Absent == "<absent>"
NullV == "null"
None == <<>>
Some(n) == <<n>>
Val(o) == o[1]

\* x || dflt   for strings: undefined and '' are falsy
StrOr(x, dflt) == IF x = Absent \/ x = "" THEN dflt ELSE x

\* x || dflt   for optional numbers: undefined and 0 are falsy
NumOr(x, dflt) == IF x = None \/ x = Some(0) THEN dflt ELSE Val(x)

\* n / d rounded to the nearest integer, halves towards +infinity (d > 0)
RoundDiv(n, d) == (2 * n + d) \div (2 * d)

-----------------------------------------------------------------------------
(* Bounds of the model.                                                    *)

MaxPrice == 110         \* classify is explored for prices 0..MaxPrice
InventorySize == 26     \* number of properties in the inventory
MaxTotal == 100         \* pagination is explored for 0..MaxTotal matches
MaxPageNo == 7          \* ... and for requested pages 1..MaxPageNo
MaxSteps == 2           \* user and timer events on the properties page
MaxInflight == 2        \* list requests in flight at once

-----------------------------------------------------------------------------
(* Valuation Classifier (backend, design document section 4.3).            *)

\* the single configured threshold, in percent
ThresholdLow == 10

\* The comparison is made on the unrounded percentage
\*   (listed - predicted) / predicted * 100,
\* kept exact here by multiplying both sides with predicted > 0.
\* (variant: the lower boundary taken exclusive)
IsUndervalued_Strict(listed, predicted) ==
    (listed - predicted) * 100 < -ThresholdLow * predicted

IsUndervalued(listed, predicted) ==
    (listed - predicted) * 100 <= -ThresholdLow * predicted

IsOvervalued(listed, predicted) ==
    (listed - predicted) * 100 >= ThresholdLow * predicted

\* the percentage as stored and shown: one decimal place, held in tenths
PercentTenths(listed, predicted) ==
    RoundDiv((listed - predicted) * 1000, predicted)

\* classify(listedPrice, predictedPrice) -> (category, percentage)
Classify(listed, predicted) ==
    IF listed = None \/ Val(listed) <= 0
    THEN [valuation |-> NullV, valuation_percentage |-> None]
    ELSE [valuation |->
              IF IsUndervalued(Val(listed), predicted) THEN "undervalued"
              ELSE IF IsOvervalued(Val(listed), predicted) THEN "overvalued"
              ELSE "fair",
          valuation_percentage |-> Some(PercentTenths(Val(listed), predicted))]

-----------------------------------------------------------------------------
(* The predict endpoint (backend, design document sections 4.2, 4.3, 6).   *)

\* the prices the opaque model may answer with (finite, positive)
ModelPrices == {20, 25}

\* POST /predict answered with 200: PredictionResponse
PredictResponse(body, price) ==
    [predicted_price |-> price,
     valuation |-> Classify(body.user_price, price).valuation,
     valuation_percentage |-> Classify(body.user_price, price).valuation_percentage,
     confidence |-> "high"]

\* why a predict request can fail: the transport (fetch rejects), a
\* validation error (422) or an inference error (500) of the backend
FailureKinds == {"network", "validation", "inference"}

-----------------------------------------------------------------------------
(* api/properties.ts: calculatePrice.                                      *)

\* (variant: the synonym "buy" is not mapped)
PredictListing_NoSynonym(listing) == StrOr(listing, "sale")

\* the listing value put in the request body
PredictListing(listing) ==
    IF listing = "buy" THEN "sale" ELSE StrOr(listing, "sale")

\* (variant: city, type and furnishing are passed on without a default)
PredictBody_NoDefaults(data) ==
    [city         |-> data.city,
     type         |-> data.type,
     surface_area |-> NumOr(data.surface_area, 100),
     bedroom      |-> StrOr(data.bedroom, "2"),
     bathroom     |-> NumOr(data.bathroom, 1),
     furnishing   |-> data.furnishing,
     floor        |-> StrOr(data.floor, "first floor"),
     neighborhood |-> StrOr(data.neighborhood, "Unknown"),
     listing      |-> PredictListing(data.listing),
     user_price   |-> data.price]

\* the body of POST /predict built from the argument
PredictBody(data) ==
    [city         |-> StrOr(data.city, "Amman"),
     type         |-> StrOr(data.type, "apartment"),
     surface_area |-> NumOr(data.surface_area, 100),
     bedroom      |-> StrOr(data.bedroom, "2"),
     bathroom     |-> NumOr(data.bathroom, 1),
     furnishing   |-> StrOr(data.furnishing, "unfurnished"),
     floor        |-> StrOr(data.floor, "first floor"),
     neighborhood |-> StrOr(data.neighborhood, "Unknown"),
     listing      |-> PredictListing(data.listing),
     user_price   |-> data.price]

\* the value returned when the request succeeded
CalculatePriceReturn(response) ==
    [predicted |-> response.predicted_price,
     valuation |-> StrOr(IF response.valuation = NullV THEN Absent
                         ELSE response.valuation, "fair")]

\* the value returned from the catch block
CalculatePriceFallback == [predicted |-> 0, valuation |-> "fair"]

\* One invocation of calculatePrice, step by step.
\*   pc: "idle" (none yet), "start" (called), "waiting" (request in flight),
\*       "returned" (the promise resolved with ret), "thrown" (it rejected)
NoCall ==
    [pc |-> "idle", data |-> None, body |-> None, outcome |-> "none",
     response |-> None, ret |-> None]

CallStart(data) == [NoCall EXCEPT !.pc = "start", !.data = Some(data)]

\* apiPost('/predict', body) is issued
CallSend(c) ==
    [c EXCEPT !.pc = "waiting", !.body = Some(PredictBody(Val(c.data)))]

\* the backend answers 200 with the model's price
CallOk(c, price) ==
    [c EXCEPT !.pc = "returned",
              !.outcome = "ok",
              !.response = Some(PredictResponse(Val(c.body), price)),
              !.ret = Some(CalculatePriceReturn(PredictResponse(Val(c.body), price)))]

\* apiPost throws (fetch rejected or response not ok); the catch block runs
CallFail(c, kind) ==
    [c EXCEPT !.pc = "returned",
              !.outcome = kind,
              !.ret = Some(CalculatePriceFallback)]

-----------------------------------------------------------------------------
(* PropertiesPage: how a list request is built (fetchProperties), and      *)
(* api/properties.ts getProperties: what of it reaches the query string.   *)

ITEMS_PER_PAGE == 24

\* decimal text of the numbers used in filters
NumberOf(text) ==
    CASE text = "0" -> 0 [] text = "1" -> 1 [] text = "2" -> 2
      [] text = "90" -> 90 [] text = "100" -> 100

\* the values the sidebar and the sort select can take in this model
FilterValues ==
    [city |-> {"", "Amman"}, type |-> {"", "apartment"},
     listing |-> {"", "rent"}, minPrice |-> {"", "90"},
     maxPrice |-> {"", "0", "100"}, bedrooms |-> {"", "studio"},
     bathrooms |-> {"", "2"}]
FilterKeys == DOMAIN FilterValues
SortOptions == {"newest", "price_asc", "price_desc", "valuation"}
SearchTexts == {"", "amm"}

NoFilters ==
    [city |-> "", type |-> "", listing |-> "", minPrice |-> "",
     maxPrice |-> "", bedrooms |-> "", bathrooms |-> ""]

\* (variant: the sort key is never put in the request)
SortParam_Dropped(sort) == Absent

\* fetchProperties: if (sortBy !== 'newest') params.sort = sortBy
SortParam(sort) == IF sort # "newest" THEN sort ELSE Absent

\* fetchProperties: the params object built from the page state
FetchParams(ui) ==
    [limit     |-> Some(ITEMS_PER_PAGE),
     page      |-> Some(ui.page),
     search    |-> IF ui.search # "" THEN ui.search ELSE Absent,
     city      |-> IF ui.filters.city # "" THEN ui.filters.city ELSE Absent,
     type      |-> IF ui.filters.type # "" THEN ui.filters.type ELSE Absent,
     listing   |-> IF ui.filters.listing # "" THEN ui.filters.listing ELSE Absent,
     min_price |-> IF ui.filters.minPrice # ""
                   THEN Some(NumberOf(ui.filters.minPrice)) ELSE None,
     max_price |-> IF ui.filters.maxPrice # ""
                   THEN Some(NumberOf(ui.filters.maxPrice)) ELSE None,
     bedrooms  |-> IF ui.filters.bedrooms # "" THEN ui.filters.bedrooms ELSE Absent,
     bathrooms |-> IF ui.filters.bathrooms # "" THEN ui.filters.bathrooms ELSE Absent,
     sort      |-> SortParam(ui.sortBy)]

\* getProperties: only truthy filter values go into the query string
GetPropertiesQuery(f) ==
    [search    |-> StrOr(f.search, Absent),
     city      |-> StrOr(f.city, Absent),
     type      |-> StrOr(f.type, Absent),
     min_price |-> IF f.min_price = Some(0) THEN None ELSE f.min_price,
     max_price |-> IF f.max_price = Some(0) THEN None ELSE f.max_price,
     bedrooms  |-> StrOr(f.bedrooms, Absent),
     bathrooms |-> StrOr(f.bathrooms, Absent),
     listing   |-> StrOr(f.listing, Absent),
     sort      |-> StrOr(f.sort, Absent),
     limit     |-> IF f.limit = Some(0) THEN None ELSE f.limit,
     page      |-> IF f.page = Some(0) THEN None ELSE f.page]

RemoveAt(seq, i) == SubSeq(seq, 1, i - 1) \o SubSeq(seq, i + 1, Len(seq))

\* (variant: the effect has no cleanup)
TimersAfterChange_NoCleanup(pending, text) == Append(pending, text)

\* the debounce effect after searchQuery changed: the cleanup clears the
\* timeout of the previous render, then a new one is set for the new text
TimersAfterChange(pending, text) == <<text>>

\* a list request: the page state it was built from and the query sent
ListRequest(ui) == [ui |-> ui, query |-> GetPropertiesQuery(FetchParams(ui))]

UiState(f, sort, search, page) ==
    [filters |-> f, sortBy |-> sort, search |-> search, page |-> page]

\* PropertiesPage right after mount: the first request is in flight
ListMounted ==
    /\ filters = NoFilters
    /\ sortBy = "newest"
    /\ searchQuery = ""
    /\ debouncedSearch = ""
    /\ timers = <<"">>
    /\ currentPage = 1
    /\ totalPages = 1
    /\ totalCount = 0
    /\ properties = <<>>
    /\ listLoading = TRUE
    /\ inflight = <<ListRequest(UiState(NoFilters, "newest", "", 1))>>
    /\ shown = None
    /\ steps = 0

-----------------------------------------------------------------------------
(* Specification SpecPredict: calculatePrice called with any argument.     *)

DataCities == {Absent, "", "Amman", "Atlantis"}
DataTypes == {Absent, "", "villa", "castle"}
DataFurnishings == {Absent, "", "furnished", "luxury"}
DataListings == {Absent, "buy", "sale", "rent"}
DataAreas == {None, Some(80), Some(-5)}
DataBedrooms == {Absent, "studio"}
DataPrices == {None, Some(0), Some(-3), Some(18), Some(20), Some(28)}

DataInputs ==
    [city : DataCities, type : DataTypes, furnishing : DataFurnishings,
     listing : DataListings, surface_area : DataAreas, bedroom : DataBedrooms,
     bathroom : {None}, floor : {Absent}, neighborhood : {""},
     price : DataPrices]

\* CalculatePage before any interaction
FormInit ==
    [city |-> "Amman", neighborhood |-> "", type |-> "apartment",
     surface_area |-> 100, bedroom |-> "2", bathroom |-> 1,
     furnishing |-> "unfurnished", floor |-> "first floor",
     listing |-> "sale", userPrice |-> 0]

PageIdle ==
    /\ formData = FormInit
    /\ result = None
    /\ loading = FALSE

ClsIdle == cls = [listed |-> None, predicted |-> 1, out |-> None]

PgIdle == pg = [total |-> 0, page_size |-> 1, page |-> 1, out |-> None]

\* no percentage presented yet
DispIdle == disp = [listed |-> 1, predicted |-> 1, out |-> None]

\* WatchlistPage not visited
WlpIdle == wlp = [pc |-> "unmounted", watchlist |-> <<>>, answers |-> <<>>,
                  deleted |-> {}, savedProperties |-> <<>>, loading |-> TRUE]

\* apiFetch not called
ApiIdle == api = [pc |-> "idle", response |-> None, thrown |-> None,
                  returned |-> None]

\* the accounts of the backend, and the watchlist each starts with
Accounts == {"admin", "sara"}
BackendInit == [a \in Accounts |-> IF a = "sara" THEN <<1>> ELSE <<>>]

\* AuthProvider right after mount: checkAuthStatus is waiting for /auth/me;
\* session is the account the browser's session cookie stands for
AuthMounted(session) ==
    [user |-> None, isLoading |-> TRUE, error |-> None,
     check |-> "waiting",
     login |-> [pc |-> "idle", email |-> "", password |-> "", err |-> None,
               ret |-> None],
     logoutPending |-> FALSE,
     updates |-> <<>>,
     session |-> session, backend |-> BackendInit,
     toggles |-> 0, alerts |-> 0, steps |-> 0]

AuthIdle == auth = AuthMounted(None)

\* OpportunitiesPage: its state right after mount, the first request sent
OppMounted(request) ==
    [mounted |-> TRUE,
     minDiscount |-> 50, searchQuery |-> "", debouncedSearch |-> "",
     listingFilter |-> "", cityFilter |-> "", typeFilter |-> "",
     currentPage |-> 1, totalPages |-> 1, totalCount |-> 0,
     opportunities |-> <<>>, topDeal |-> None, loading |-> TRUE,
     timers |-> <<"">>, inflight |-> <<request>>, steps |-> 0]

\* OpportunitiesPage not visited
OppIdle == opp = [OppMounted(None) EXCEPT !.mounted = FALSE, !.timers = <<>>,
                                         !.inflight = <<>>]

\* ChatWidget right after mount, in the given context
ChatMounted(context) ==
    [context |-> context, messages |-> <<>>, input |-> "", isTyping |-> FALSE,
     pending |-> None, calls |-> 0, steps |-> 0]

ChatIdle == chat = ChatMounted("global")

\* getPageNumbers not evaluated
NavIdle == nav = [currentPage |-> 1, totalPages |-> 1, out |-> None]

\* no card rendered
CardIdle == card = [data |-> None, out |-> None]

ViewIdle == NavIdle /\ CardIdle

MoreIdle ==
    /\ DispIdle /\ WlpIdle /\ ApiIdle /\ AuthIdle /\ OppIdle /\ ChatIdle
    /\ ViewIdle

InitPredict ==
    /\ \E d \in DataInputs : call = CallStart(d)
    /\ PageIdle
    /\ ClsIdle
    /\ PgIdle
    /\ ListMounted
    /\ MoreIdle

PredictSend ==
    /\ call.pc = "start"
    /\ call' = CallSend(call)
    /\ UNCHANGED <<formData, result, loading, cls, pg, listVars, moreVars, viewVars>>

PredictOk ==
    /\ call.pc = "waiting"
    /\ \E p \in ModelPrices : call' = CallOk(call, p)
    /\ UNCHANGED <<formData, result, loading, cls, pg, listVars, moreVars, viewVars>>

PredictFail ==
    /\ call.pc = "waiting"
    /\ \E k \in FailureKinds : call' = CallFail(call, k)
    /\ UNCHANGED <<formData, result, loading, cls, pg, listVars, moreVars, viewVars>>

NextPredict == PredictSend \/ PredictOk \/ PredictFail

SpecPredict == InitPredict /\ [][NextPredict]_vars

-----------------------------------------------------------------------------
(* Specification SpecCalc: the calculator page (CalculatePage).            *)

FormCities == {"Amman", "Irbid"}
FormTypes == {"apartment", "farms and chalets"}
FormFurnishings == {"unfurnished", "semi furnished"}
FormListings == {"sale", "rent"}
FormPrices == {0, 18, 19, 20, 28}

\* the argument handleSubmit passes to calculatePrice
FormArgs(f) ==
    [city |-> f.city, type |-> f.type, surface_area |-> Some(f.surface_area),
     bedroom |-> f.bedroom, bathroom |-> Some(f.bathroom),
     furnishing |-> f.furnishing, floor |-> f.floor,
     neighborhood |-> f.neighborhood, listing |-> f.listing,
     price |-> Some(f.userPrice)]

InitCalc ==
    /\ call = NoCall
    /\ PageIdle
    /\ ClsIdle
    /\ PgIdle
    /\ ListMounted
    /\ MoreIdle

\* the onChange handlers of the form
ChangeCity ==
    /\ \E v \in FormCities : formData' = [formData EXCEPT !.city = v]
    /\ UNCHANGED <<call, result, loading, cls, pg, listVars, moreVars, viewVars>>

ChangeType ==
    /\ \E v \in FormTypes : formData' = [formData EXCEPT !.type = v]
    /\ UNCHANGED <<call, result, loading, cls, pg, listVars, moreVars, viewVars>>

ChangeFurnishing ==
    /\ \E v \in FormFurnishings : formData' = [formData EXCEPT !.furnishing = v]
    /\ UNCHANGED <<call, result, loading, cls, pg, listVars, moreVars, viewVars>>

ChangeListing ==
    /\ \E v \in FormListings : formData' = [formData EXCEPT !.listing = v]
    /\ UNCHANGED <<call, result, loading, cls, pg, listVars, moreVars, viewVars>>

ChangeUserPrice ==
    /\ \E v \in FormPrices : formData' = [formData EXCEPT !.userPrice = v]
    /\ UNCHANGED <<call, result, loading, cls, pg, listVars, moreVars, viewVars>>

\* handleSubmit up to the await: the submit button is disabled while loading
HandleSubmit ==
    /\ ~loading
    /\ loading' = TRUE
    /\ call' = CallSend(CallStart(FormArgs(formData)))
    /\ UNCHANGED <<formData, result, cls, pg, listVars, moreVars, viewVars>>

\* the request succeeds: calculatePrice returns, setResult, setLoading(false)
SubmitOk ==
    /\ loading
    /\ call.pc = "waiting"
    /\ \E p \in ModelPrices :
          /\ call' = CallOk(call, p)
          /\ result' = CallOk(call, p).ret
    /\ loading' = FALSE
    /\ UNCHANGED <<formData, cls, pg, listVars, moreVars, viewVars>>

\* the request fails: calculatePrice catches and returns, setResult,
\* setLoading(false); the catch block of handleSubmit is never entered
SubmitFail ==
    /\ loading
    /\ call.pc = "waiting"
    /\ \E k \in FailureKinds :
          /\ call' = CallFail(call, k)
          /\ result' = CallFail(call, k).ret
    /\ loading' = FALSE
    /\ UNCHANGED <<formData, cls, pg, listVars, moreVars, viewVars>>

\* "Calculate Another Property"
CalculateAnother ==
    /\ result # None
    /\ result' = None
    /\ formData' = [formData EXCEPT !.userPrice = 0]
    /\ UNCHANGED <<call, loading, cls, pg, listVars, moreVars, viewVars>>

NextCalc ==
    \/ ChangeCity \/ ChangeType \/ ChangeFurnishing \/ ChangeListing
    \/ ChangeUserPrice \/ HandleSubmit \/ SubmitOk \/ SubmitFail
    \/ CalculateAnother

SpecCalc == InitCalc /\ [][NextCalc]_vars

\* the valuation card is rendered (CalculatePage, result section)
ValuationCardShown == result # None /\ formData.userPrice > 0

-----------------------------------------------------------------------------
(* Specification SpecClassify: classify applied to any pair of prices.     *)

InitClassify ==
    /\ call = NoCall
    /\ PageIdle
    /\ PgIdle
    /\ ListMounted
    /\ MoreIdle
    /\ \E l \in {None} \cup {Some(n) : n \in -1..MaxPrice}, p \in 1..MaxPrice :
          cls = [listed |-> l, predicted |-> p, out |-> None]

Classifies ==
    /\ cls.out = None
    /\ cls' = [cls EXCEPT !.out = Some(Classify(cls.listed, cls.predicted))]
    /\ UNCHANGED <<call, formData, result, loading, pg, listVars, moreVars, viewVars>>

NextClassify == Classifies

SpecClassify == InitClassify /\ [][NextClassify]_vars

-----------------------------------------------------------------------------
(* The inventory and the query engine (backend, design sections 3, 4.4).   *)

Cycle(seq, i) == seq[(i % Len(seq)) + 1]

\* the price the model predicted for the stored properties
StoredPrediction == 100

\* The stored property number i, as the backend serializes it.  Valuation
\* fields are computed at ingestion by the same classifier; a property whose
\* prediction is missing carries no valuation.
RawProperty(i) ==
    LET price == Cycle(<<25, 40, 90, 100, 120, 0, 95>>, i)
        predicted == IF i % 6 = 5 THEN None ELSE Some(StoredPrediction)
        v == IF predicted = None
             THEN [valuation |-> NullV, valuation_percentage |-> None]
             ELSE Classify(Some(price), Val(predicted))
    IN  [id |-> i,
         city |-> Cycle(<<"Amman", "Amman", "Irbid">>, i),
         neighborhood |-> Cycle(<<"Abdoun", "Khalda">>, i),
         type |-> Cycle(<<"apartment", "town house", "villas and palaces",
                          "whole building", "farms and chalets">>, i),
         listing |-> Cycle(<<"sale", "sale", "sale", "rent">>, i),
         surface_area |-> 100 + 10 * (i % 4),
         bedroom |-> Cycle(<<"studio", "2", "3">>, i),
         bathroom |-> 1 + (i % 2),
         furnishing |-> Cycle(<<"furnished", "unfurnished", "semi furnished">>, i),
         price |-> price,
         predicted_price |-> predicted,
         valuation |-> v.valuation,
         valuation_percentage |-> v.valuation_percentage,
         added_at |-> (i * 7) % 10]

Ids == 1..InventorySize
Inventory == [i \in Ids |-> RawProperty(i)]

\* case-insensitive substring search on city and neighborhood
SearchHits ==
    {<<"amm", "Amman">>, <<"abd", "Abdoun">>, <<"irb", "Irbid">>}
SearchMatches(term, p) ==
    <<term, p.city>> \in SearchHits \/ <<term, p.neighborhood>> \in SearchHits

\* "buy" and "sale" name the same listing kind
ListingKind(l) == IF l = "buy" THEN "sale" ELSE l

\* every filter key that is present is an independent AND predicate
Matches(p, q) ==
    /\ q.search = Absent \/ SearchMatches(q.search, p)
    /\ q.city = Absent \/ p.city = q.city
    /\ q.type = Absent \/ p.type = q.type
    /\ q.listing = Absent \/ ListingKind(p.listing) = ListingKind(q.listing)
    /\ q.min_price = None \/ p.price >= Val(q.min_price)
    /\ q.max_price = None \/ p.price <= Val(q.max_price)
    /\ q.bedrooms = Absent \/ p.bedroom = q.bedrooms
    /\ q.bathrooms = Absent \/ p.bathroom = NumberOf(q.bathrooms)

SortKeys == {"newest", "price_asc", "price_desc", "valuation"}

\* an absent or unrecognized sort key means newest first
SortKeyOf(sort) == IF sort \in SortKeys THEN sort ELSE "newest"

\* a comes before b under sort key k; ties are broken by id ascending
Before(k, a, b) ==
    LET tie == a.id < b.id
    IN  CASE k = "newest" ->
               a.added_at > b.added_at \/ (a.added_at = b.added_at /\ tie)
          [] k = "price_asc" ->
               a.price < b.price \/ (a.price = b.price /\ tie)
          [] k = "price_desc" ->
               a.price > b.price \/ (a.price = b.price /\ tie)
          [] k = "valuation" ->
               \* valuation_percentage ascending, properties without one last
               IF a.valuation_percentage = None \/ b.valuation_percentage = None
               THEN \/ a.valuation_percentage # None
                    \/ (b.valuation_percentage = None /\ tie)
               ELSE \/ Val(a.valuation_percentage) < Val(b.valuation_percentage)
                    \/ /\ Val(a.valuation_percentage) = Val(b.valuation_percentage)
                       /\ tie

\* the whole inventory in the order of each sort key
SortedAll ==
    [k \in SortKeys |->
        [n \in Ids |->
            CHOOSE x \in Ids :
                Cardinality({y \in Ids : Before(k, Inventory[y], Inventory[x])})
                    = n - 1]]

\* filter, then sort: the ids of the matching properties in order
QueryIds(q) ==
    SelectSeq(SortedAll[SortKeyOf(q.sort)], LAMBDA id : Matches(Inventory[id], q))

BackendPageSize == 24

CeilDiv(a, b) == (a + b - 1) \div b

\* total page count; an empty result counts as one page
PageCount(total, size) == IF total = 0 THEN 1 ELSE CeilDiv(total, size)

\* the Page envelope for page `page` of the ordered matches
ListPage(matches, page, size) ==
    LET total == Len(matches)
        first == (page - 1) * size + 1
        last == IF page * size < total THEN page * size ELSE total
    IN  [items |-> IF first > last THEN <<>> ELSE SubSeq(matches, first, last),
         total |-> total,
         page |-> page,
         pages |-> PageCount(total, size),
         has_next |-> page < PageCount(total, size),
         has_prev |-> page > 1]

\* GET /properties?...
ListProperties(q) ==
    LET ids == QueryIds(q)
    IN  ListPage([n \in 1..Len(ids) |-> Inventory[ids[n]]],
                 IF q.page = None THEN 1 ELSE Val(q.page),
                 IF q.limit = None THEN BackendPageSize ELSE Val(q.limit))

-----------------------------------------------------------------------------
(* api/properties.ts: getProperties and transformProperty.                 *)

\* transformProperty: listing
TransformListing(listing) ==
    IF listing = "sale" THEN "buy" ELSE StrOr(listing, "buy")

LowerCase(text) ==
    CASE text = "Apartment" -> "apartment" [] text = "Villa" -> "villa"
      [] OTHER -> text

\* normalizeType: typeMap[type?.toLowerCase()] || 'apartment'
NormalizeType(type) ==
    LET t == LowerCase(type)
    IN  CASE t \in {"apartment", "villa", "studio", "land", "whole building"} -> t
          [] t \in {"commercial", "commerecial"} -> "commerecial"
          [] t = "farm" -> "land"
          [] t = "chalet" -> "villa"
          [] OTHER -> "apartment"

\* normalizeFurnishing: furnishingMap[furnishing?.toLowerCase()] || 'unfurnished'
NormalizeFurnishing(furnishing) ==
    LET f == LowerCase(furnishing)
    IN  CASE f \in {"furnished", "unfurnished", "semi-furnished"} -> f
          [] f = "semi furnished" -> "semi-furnished"
          [] OTHER -> "unfurnished"

\* (variant: a missing valuation is shown as fair)
TransformProperty_DefaultFair(data) ==
    [id |-> data.id,
     city |-> StrOr(data.city, "Unknown"),
     type |-> NormalizeType(data.type),
     surface_area |-> data.surface_area,
     bedroom |-> StrOr(data.bedroom, "0"),
     bathroom |-> data.bathroom,
     furnishing |-> NormalizeFurnishing(data.furnishing),
     neighborhood |-> StrOr(data.neighborhood, "Unknown"),
     listing |-> TransformListing(data.listing),
     price |-> data.price,
     predicted_price |-> data.predicted_price,
     valuation |-> IF data.valuation = NullV THEN "fair" ELSE data.valuation,
     valuation_percentage |-> data.valuation_percentage,
     added_at |-> data.added_at]

\* transformProperty; the valuation fields are handed on as they come
TransformProperty(data) ==
    [id |-> data.id,
     city |-> StrOr(data.city, "Unknown"),
     type |-> NormalizeType(data.type),
     surface_area |-> data.surface_area,
     bedroom |-> StrOr(data.bedroom, "0"),
     bathroom |-> data.bathroom,
     furnishing |-> NormalizeFurnishing(data.furnishing),
     neighborhood |-> StrOr(data.neighborhood, "Unknown"),
     listing |-> TransformListing(data.listing),
     price |-> data.price,
     predicted_price |-> data.predicted_price,
     valuation |-> data.valuation,
     valuation_percentage |-> data.valuation_percentage,
     added_at |-> data.added_at]

MapTransform(items) == [n \in 1..Len(items) |-> TransformProperty(items[n])]

\* (variant: has_prev is read for hasNext)
GetPropertiesReturn_Swapped(response) ==
    [items |-> MapTransform(response.items),
     total |-> response.total,
     page |-> response.page,
     pages |-> response.pages,
     hasNext |-> response.has_prev,
     hasPrev |-> response.has_next]

\* (variant: the page number is read for the page count)
GetPropertiesReturn_PageForPages(response) ==
    [items |-> MapTransform(response.items),
     total |-> response.total,
     page |-> response.page,
     pages |-> response.page,
     hasNext |-> response.has_next,
     hasPrev |-> response.has_prev]

\* getProperties: the backend response in frontend shape
GetPropertiesReturn(response) ==
    [items |-> MapTransform(response.items),
     total |-> response.total,
     page |-> response.page,
     pages |-> response.pages,
     hasNext |-> response.has_next,
     hasPrev |-> response.has_prev]

-----------------------------------------------------------------------------
(* Specification SpecPage: one page of a query with `total` matches.       *)

PageSizes == {1, 10, ITEMS_PER_PAGE}

InitPage ==
    /\ call = NoCall
    /\ PageIdle
    /\ ClsIdle
    /\ ListMounted
    /\ MoreIdle
    /\ \E t \in 0..MaxTotal, ps \in PageSizes, n \in 1..MaxPageNo :
          pg = [total |-> t, page_size |-> ps, page |-> n, out |-> None]

\* the page is requested through getProperties and answered
PageRequest ==
    /\ pg.out = None
    /\ pg' = [pg EXCEPT !.out =
                 Some(GetPropertiesReturn(
                     ListPage([n \in 1..pg.total |-> RawProperty(n)],
                              pg.page, pg.page_size)))]
    /\ UNCHANGED <<calcVars, cls, listVars, moreVars, viewVars>>

NextPage == PageRequest

SpecPage == InitPage /\ [][NextPage]_vars

-----------------------------------------------------------------------------
(* Specification SpecList: the properties page (PropertiesPage).           *)

InitList ==
    /\ call = NoCall
    /\ PageIdle
    /\ ClsIdle
    /\ PgIdle
    /\ ListMounted
    /\ MoreIdle

\* The effects that follow a change of filters, search text or sort key:
\* the fetch effect runs with the page number of that render, the reset
\* effect sets currentPage to 1, and if that changed it the fetch effect
\* runs once more.
RequestsAfterChange(f, sort, search) ==
    IF currentPage = 1
    THEN <<ListRequest(UiState(f, sort, search, 1))>>
    ELSE <<ListRequest(UiState(f, sort, search, currentPage)),
           ListRequest(UiState(f, sort, search, 1))>>

RequestsIssued(f, sort, search) ==
    /\ inflight' = inflight \o RequestsAfterChange(f, sort, search)
    /\ currentPage' = 1
    /\ listLoading' = TRUE

\* a change made by the user
ChangeApplied(f, sort, search) ==
    /\ steps < MaxSteps
    /\ Len(inflight) + Len(RequestsAfterChange(f, sort, search)) <= MaxInflight
    /\ RequestsIssued(f, sort, search)
    /\ steps' = steps + 1

\* the properties page is the page on screen
ListShown == ~opp.mounted

\* FilterSidebar.handleChange -> handleFilterChange -> setFilters
SetFilter ==
    /\ ListShown
    /\ \E k \in FilterKeys : \E v \in FilterValues[k] :
          /\ v # filters[k]
          /\ filters' = [filters EXCEPT ![k] = v]
          /\ ChangeApplied([filters EXCEPT ![k] = v], sortBy, debouncedSearch)
    /\ UNCHANGED <<sortBy, searchQuery, debouncedSearch, timers,
                   totalPages, totalCount, properties, shown>>
    /\ UNCHANGED <<calcVars, cls, pg, moreVars, viewVars>>

\* FilterSidebar.handleReset
ResetFilters ==
    /\ ListShown
    /\ filters # NoFilters
    /\ filters' = NoFilters
    /\ ChangeApplied(NoFilters, sortBy, debouncedSearch)
    /\ UNCHANGED <<sortBy, searchQuery, debouncedSearch, timers,
                   totalPages, totalCount, properties, shown>>
    /\ UNCHANGED <<calcVars, cls, pg, moreVars, viewVars>>

\* the sort select
SetSort ==
    /\ ListShown
    /\ \E v \in SortOptions :
          /\ v # sortBy
          /\ sortBy' = v
          /\ ChangeApplied(filters, v, debouncedSearch)
    /\ UNCHANGED <<filters, searchQuery, debouncedSearch, timers,
                   totalPages, totalCount, properties, shown>>
    /\ UNCHANGED <<calcVars, cls, pg, moreVars, viewVars>>

\* typing in the search box: the pending timeout is cleared, a new one set
TypeSearch ==
    /\ ListShown
    /\ steps < MaxSteps
    /\ \E v \in SearchTexts :
          /\ v # searchQuery
          /\ searchQuery' = v
    /\ timers' = TimersAfterChange(timers, searchQuery')
    /\ steps' = steps + 1
    /\ UNCHANGED <<filters, sortBy, debouncedSearch, currentPage, totalPages,
                   totalCount, properties, listLoading, inflight, shown>>
    /\ UNCHANGED <<calcVars, cls, pg, moreVars, viewVars>>

\* a timeout fires: setDebouncedSearch(searchQuery), with the searchQuery
\* of the render that set the timeout
DebounceFires ==
    /\ ListShown
    /\ \E i \in DOMAIN timers :
          /\ timers' = RemoveAt(timers, i)
          /\ debouncedSearch' = timers[i]
          /\ IF timers[i] = debouncedSearch
             THEN UNCHANGED <<currentPage, listLoading, inflight>>
             ELSE RequestsIssued(filters, sortBy, timers[i])
    /\ UNCHANGED <<filters, sortBy, searchQuery, totalPages, totalCount,
                   properties, shown, steps>>
    /\ UNCHANGED <<calcVars, cls, pg, moreVars, viewVars>>

\* a page button, Previous or Next: shown when the list is
GoToPage ==
    /\ ListShown
    /\ steps < MaxSteps
    /\ Len(inflight) < MaxInflight
    /\ ~listLoading
    /\ Len(properties) > 0
    /\ totalPages > 1
    /\ \E n \in 1..totalPages :
          /\ n # currentPage
          /\ currentPage' = n
          /\ inflight' = Append(inflight,
                 ListRequest(UiState(filters, sortBy, debouncedSearch, n)))
    /\ listLoading' = TRUE
    /\ steps' = steps + 1
    /\ UNCHANGED <<filters, sortBy, searchQuery, debouncedSearch, timers,
                   totalPages, totalCount, properties, shown>>
    /\ UNCHANGED <<calcVars, cls, pg, moreVars, viewVars>>

\* a request is answered 200: setProperties, setTotalPages, setTotalCount
ResponseOk ==
    /\ ListShown
    /\ \E i \in 1..Len(inflight) :
          LET r == GetPropertiesReturn(ListProperties(inflight[i].query))
          IN  /\ properties' = r.items
              /\ totalPages' = r.pages
              /\ totalCount' = r.total
              /\ shown' = Some([req |-> inflight[i], ok |-> TRUE])
              /\ inflight' = RemoveAt(inflight, i)
    /\ listLoading' = FALSE
    /\ UNCHANGED <<filters, sortBy, searchQuery, debouncedSearch, timers,
                   currentPage, steps>>
    /\ UNCHANGED <<calcVars, cls, pg, moreVars, viewVars>>

\* a request fails: getProperties throws, the catch block empties the list
ResponseFail ==
    /\ ListShown
    /\ \E i \in 1..Len(inflight) :
          /\ shown' = Some([req |-> inflight[i], ok |-> FALSE])
          /\ inflight' = RemoveAt(inflight, i)
    /\ properties' = <<>>
    /\ listLoading' = FALSE
    /\ UNCHANGED <<filters, sortBy, searchQuery, debouncedSearch, timers,
                   currentPage, totalPages, totalCount, steps>>
    /\ UNCHANGED <<calcVars, cls, pg, moreVars, viewVars>>

NextList ==
    \/ SetFilter \/ ResetFilters \/ SetSort \/ TypeSearch \/ DebounceFires
    \/ GoToPage \/ ResponseOk \/ ResponseFail

SpecList == InitList /\ [][NextList]_vars

-----------------------------------------------------------------------------
(* Properties of the calculator and of the classifier.                     *)

\* C1: a failed predict request is reported to the caller as an error: the
\* call returns no value (no price, no category) for it, and whatever price
\* the calculator shows is a price the predictor answered with.
C1_FailureSurfaced ==
    /\ call.outcome \in FailureKinds => call.ret = None
    /\ result # None => Val(result).predicted \in ModelPrices

\* C2: a prediction request whose asking price is absent or <= 0 delivers
\* valuation = null to the caller of calculatePrice: no category.
C2_NoCategoryWithoutPrice ==
    (/\ call.pc = "returned"
     /\ call.outcome = "ok"
     /\ (Val(call.body).user_price = None \/ Val(Val(call.body).user_price) <= 0))
    => Val(call.ret).valuation = NullV

\* C3: for listed > 0 and predicted > 0 classify answers undervalued iff
\* listed is at most (100 - T)% of predicted, overvalued iff listed is at
\* least (100 + T)% of predicted, fair otherwise: exactly one category, both
\* boundaries inclusive; with T = 10, 89/100 and 90/100 are undervalued,
\* 91/100 is fair and 110/100 is overvalued.
C3_ClassifyPartition ==
    (cls.out # None /\ cls.listed # None /\ Val(cls.listed) > 0) =>
        LET l == Val(cls.listed)
            p == cls.predicted
            v == Val(cls.out).valuation
        IN  /\ v \in {"undervalued", "fair", "overvalued"}
            /\ (v = "undervalued") <=> (100 * l <= (100 - ThresholdLow) * p)
            /\ (v = "overvalued") <=> (100 * l >= (100 + ThresholdLow) * p)
            /\ (v = "fair") <=> /\ 100 * l > (100 - ThresholdLow) * p
                                /\ 100 * l < (100 + ThresholdLow) * p
            /\ (p = 100 /\ l \in {89, 90}) => v = "undervalued"
            /\ (p = 100 /\ l = 91) => v = "fair"
            /\ (p = 100 /\ l = 110) => v = "overvalued"

\* C3 witness: classify has answered on the lower boundary (90 against 100)
C3_Witness ==
    /\ cls.out # None
    /\ cls.listed = Some(90)
    /\ cls.predicted = 100
    /\ Val(cls.out).valuation = "undervalued"

\* C9: the listing sent to the predictor is canonical: "sale" for buy, sale
\* and absent, "rent" for rent, never "buy"; a listing that transformProperty
\* turned from "sale" into "buy" is sent back as "sale".
C9_ListingCanonical ==
    /\ call.body # None =>
          LET given == Val(call.data).listing
              sent == Val(call.body).listing
          IN  /\ sent \in {"sale", "rent"}
              /\ given \in {"buy", "sale", Absent} => sent = "sale"
              /\ given = "rent" => sent = "rent"
    /\ PredictListing(TransformListing("sale")) = "sale"
    /\ PredictListing(TransformListing("rent")) = "rent"

\* C9 witness: a call made with "buy" has been sent with "sale"
C9_Witness ==
    /\ call.pc = "returned"
    /\ Val(call.data).listing = "buy"
    /\ Val(call.body).listing = "sale"

\* the values the frontend knows: the calculator's city list, the keys of
\* normalizeType's typeMap and of normalizeFurnishing's furnishingMap
FormCityList ==
    {"Amman", "Irbid", "Zarqa", "Aqaba", "Salt", "Madaba", "Mafraq", "Jerash",
     "Ajloun", "Al Karak", "Tafila", "Ma'an", "Ramtha", "Jordan Valley"}
TypeMapKeys ==
    {"apartment", "villa", "studio", "land", "commercial", "commerecial",
     "whole building", "farm", "chalet"}
FurnishingMapKeys ==
    {"furnished", "unfurnished", "semi-furnished", "semi furnished"}

-----------------------------------------------------------------------------
(* Properties of pagination.                                               *)

\* n is total / size rounded up: the least n with n * size >= total
IsCeil(n, total, size) == n * size >= total /\ (n - 1) * size < total

\* C5 (as claimed): every Page has pages = ceil(total / page_size),
\* items.length <= page_size, and for total = 0 empty items and pages >= 1.
C5_PageInvariant ==
    pg.out # None =>
        LET r == Val(pg.out)
        IN  /\ IsCeil(r.pages, r.total, pg.page_size)
            /\ Len(r.items) <= pg.page_size
            /\ r.total = 0 => (r.items = <<>> /\ r.pages >= 1)

\* C5 (amended): every Page has pages = ceil(total / page_size) when
\* total > 0 and pages = 1 when total = 0; items.length <= page_size; for
\* total = 0 the items are empty.
C5_PageInvariantFromOne ==
    pg.out # None =>
        LET r == Val(pg.out)
        IN  /\ r.total = pg.total
            /\ r.total > 0 => IsCeil(r.pages, r.total, pg.page_size)
            /\ r.total = 0 => (r.items = <<>> /\ r.pages = 1)
            /\ Len(r.items) <= pg.page_size

\* C5 witness: a page of an empty result has been returned
C5_Witness ==
    /\ pg.out # None
    /\ pg.total = 0
    /\ Val(pg.out).pages = 1
    /\ Val(pg.out).items = <<>>

\* C6: pages are 1-based, and a page beyond the last one is answered with
\* no items, the query's total and page count, and hasNext = false; for
\* total = 100 and page_size = 24 there are 5 pages, page 5 has 4 items and
\* page 6 has none.
C6_BeyondLastPage ==
    pg.out # None =>
        LET r == Val(pg.out)
            pages == IF pg.total = 0 THEN 1
                     ELSE CHOOSE n \in 1..pg.total : IsCeil(n, pg.total, pg.page_size)
        IN  /\ r.total = pg.total
            /\ r.pages = pages
            /\ (pg.page = 1 /\ pg.total > 0) => r.items[1].id = 1
            /\ pg.page > pages => (r.items = <<>> /\ ~r.hasNext)
            /\ (pg.total = 100 /\ pg.page_size = 24) =>
                  /\ r.pages = 5
                  /\ pg.page = 5 => Len(r.items) = 4
                  /\ pg.page = 6 => (Len(r.items) = 0 /\ ~r.hasNext)

\* C6 witness: page 6 of 100 matches at 24 per page has been answered empty
C6_Witness ==
    /\ pg.out # None
    /\ pg.total = 100 /\ pg.page_size = 24 /\ pg.page = 6
    /\ Val(pg.out).items = <<>>
    /\ Val(pg.out).pages = 5

-----------------------------------------------------------------------------
(* Properties of the properties page.                                      *)

\* the answer on display is the one of request shown.req
AnswerShown == shown # None /\ Val(shown).ok

DisplayedIds == {properties[n].id : n \in 1..Len(properties)}

\* C4: every Property record on display (produced by transformProperty from
\* a backend payload) has: valuation non-null implies predicted_price
\* non-null, and predicted_price null implies valuation and
\* valuation_percentage null.
C4_ValuationNeedsPrediction ==
    \A n \in 1..Len(properties) :
        LET p == properties[n]
        IN  /\ p.valuation # NullV => p.predicted_price # None
            /\ p.predicted_price = None =>
                  (p.valuation = NullV /\ p.valuation_percentage = None)

\* C4 witness: the list shows a property without prediction and one with a
\* valuation
C4_Witness ==
    /\ AnswerShown
    /\ \E n \in 1..Len(properties) : properties[n].predicted_price = None
    /\ \E n \in 1..Len(properties) : properties[n].valuation = "undervalued"

\* p satisfies every filter of the sidebar that is set, and the search text
SatisfiesFilters(p, f, search) ==
    /\ f.city = "" \/ p.city = f.city
    /\ f.type = "" \/ p.type = f.type
    /\ f.listing = "" \/ ListingKind(p.listing) = ListingKind(f.listing)
    /\ f.minPrice = "" \/ p.price >= NumberOf(f.minPrice)
    /\ f.maxPrice = "" \/ p.price <= NumberOf(f.maxPrice)
    /\ f.bedrooms = "" \/ p.bedroom = f.bedrooms
    /\ f.bathrooms = "" \/ p.bathroom = NumberOf(f.bathrooms)
    /\ search = "" \/ SearchMatches(search, p)

\* C7: the result of a list query is exactly the set of properties that
\* satisfy every filter that is set (each an independent AND predicate); a
\* filter that is not set is not sent and imposes no constraint, so with no
\* filter the whole inventory and its count are returned.
C7_ResultIsFilterSet ==
    AnswerShown =>
        LET ui == Val(shown).req.ui
            q == Val(shown).req.query
            expected == {i \in Ids :
                            SatisfiesFilters(Inventory[i], ui.filters, ui.search)}
        IN  /\ totalCount = Cardinality(expected)
            /\ DisplayedIds \subseteq expected
            /\ (ui.page = 1 /\ Cardinality(expected) <= ITEMS_PER_PAGE)
                  => DisplayedIds = expected
            /\ ui.filters.city = "" => q.city = Absent
            /\ ui.filters.type = "" => q.type = Absent
            /\ ui.filters.listing = "" => q.listing = Absent
            /\ ui.filters.minPrice = "" => q.min_price = None
            /\ ui.filters.maxPrice = "" => q.max_price = None
            /\ ui.filters.bedrooms = "" => q.bedrooms = Absent
            /\ ui.filters.bathrooms = "" => q.bathrooms = Absent
            /\ (ui.filters = NoFilters /\ ui.search = "")
                  => totalCount = InventorySize

\* a is listed before b under the sort option of the page
ListedBefore(option, a, b) ==
    LET tie == a.id < b.id
    IN  CASE option = "newest" ->
               a.added_at > b.added_at \/ (a.added_at = b.added_at /\ tie)
          [] option = "price_asc" ->
               a.price < b.price \/ (a.price = b.price /\ tie)
          [] option = "price_desc" ->
               a.price > b.price \/ (a.price = b.price /\ tie)
          [] option = "valuation" ->
               (a.valuation = "undervalued" /\ b.valuation = "undervalued") =>
                   \/ Val(a.valuation_percentage) < Val(b.valuation_percentage)
                   \/ /\ Val(a.valuation_percentage) = Val(b.valuation_percentage)
                      /\ tie

\* C8: the order of a result is determined by the sort option, ties broken
\* by id ascending: newest first when no sort is chosen, and under "best
\* value" undervalued properties by valuation_percentage ascending (-75%
\* before -60%).
C8_OrderBySortKey ==
    AnswerShown =>
        \A m, n \in 1..Len(properties) :
            m < n => ListedBefore(Val(shown).req.ui.sortBy,
                                  properties[m], properties[n])

\* C8 witness: under "best value" a -75% property is listed first and a
\* -60% property after it
C8_Witness ==
    /\ AnswerShown
    /\ Val(shown).req.ui.sortBy = "valuation"
    /\ Len(properties) > 1
    /\ properties[1].valuation_percentage = Some(-750)
    /\ \E n \in 2..Len(properties) :
          properties[n].valuation_percentage = Some(-600)

-----------------------------------------------------------------------------
(* How a valuation percentage is presented.  A figure on the screen is the *)
(* text of a decimal number: its sign, its whole part and the digits after *)
(* the decimal point.  Percentages are held in tenths (one decimal place), *)
(* the precision valuation_percentage is stored with.                      *)

AbsInt(n) == IF n < 0 THEN -n ELSE n

\* `${x}` for a number with at most one decimal place: shortest text
NumberToString(tenths) ==
    [neg |-> tenths < 0,
     whole |-> AbsInt(tenths) \div 10,
     decimals |-> IF AbsInt(tenths) % 10 = 0 THEN <<>>
                  ELSE <<AbsInt(tenths) % 10>>]

\* Math.abs(x).toFixed(1)
AbsToFixed1(tenths) ==
    [neg |-> FALSE,
     whole |-> AbsInt(tenths) \div 10,
     decimals |-> <<AbsInt(tenths) % 10>>]

\* Math.abs(x).toFixed(0): nearest integer, halves to the larger one
AbsToFixed0(tenths) ==
    [neg |-> FALSE, whole |-> (AbsInt(tenths) + 5) \div 10, decimals |-> <<>>]

\* x || 0 for valuation_percentage
PercentOrZero(vp) == IF vp = None THEN 0 ELSE Val(vp)

\* PropertyCard badge: the raw number, nothing when it is 0 or missing
CardPercent(property) ==
    IF property.valuation \in {NullV, Absent, ""} THEN None
    ELSE IF PercentOrZero(property.valuation_percentage) = 0 THEN None
    ELSE Some(NumberToString(Val(property.valuation_percentage)))

\* PropertyDetailPage valuation badge
DetailPercent(property) ==
    AbsToFixed1(PercentOrZero(property.valuation_percentage))

\* OpportunitiesPage 'Top Discount' stat
TopDiscountPercent(topDeal) ==
    AbsToFixed0(PercentOrZero(topDeal.valuation_percentage))

\* CalculatePage: Math.abs(Math.round((userPrice - predicted) / predicted * 100))
CalculatorPercent(userPrice, predicted) ==
    [neg |-> FALSE,
     whole |-> AbsInt(RoundDiv((userPrice - predicted) * 100, predicted)),
     decimals |-> <<>>]

\* the magnitude of a figure in tenths, when it has at most one decimal
FigureTenths(fig) ==
    fig.whole * 10 + (IF fig.decimals = <<>> THEN 0 ELSE fig.decimals[1])

-----------------------------------------------------------------------------
(* Specification SpecShow: one listed price and one predicted price,       *)
(* presented by the card, the detail page, the opportunities stat and the  *)
(* calculator.                                                             *)

InitShow ==
    /\ call = NoCall
    /\ PageIdle
    /\ ClsIdle
    /\ PgIdle
    /\ ListMounted
    /\ WlpIdle /\ ApiIdle /\ AuthIdle /\ OppIdle /\ ChatIdle
    /\ ViewIdle
    /\ \E l \in 1..MaxPrice, p \in 1..MaxPrice :
          disp = [listed |-> l, predicted |-> p, out |-> None]

Presents ==
    /\ disp.out = None
    /\ LET stored == Classify(Some(disp.listed), disp.predicted)
       IN disp' = [disp EXCEPT !.out = Some(
              [stored |-> stored.valuation_percentage,
               card |-> CardPercent(stored),
               detail |-> Some(DetailPercent(stored)),
               stat |-> Some(TopDiscountPercent(stored)),
               calc |-> Some(CalculatorPercent(disp.listed, disp.predicted))])]
    /\ UNCHANGED <<viewVars, oldVars, wlp, api, auth, opp, chat>>

NextShow == Presents

SpecShow == InitShow /\ [][NextShow]_vars

ShownFigures ==
    {Val(disp.out).card, Val(disp.out).detail,
     Val(disp.out).stat, Val(disp.out).calc} \ {None}

\* C11: every place that shows a valuation percentage shows it with one
\* decimal place, and for the same listed and predicted price the magnitude
\* the calculator shows is the magnitude of the stored valuation_percentage.
C11_SamePrecision ==
    disp.out # None =>
        /\ \A fig \in ShownFigures : Len(Val(fig).decimals) = 1
        /\ FigureTenths(Val(Val(disp.out).calc))
               = AbsInt(Val(Val(disp.out).stored))

-----------------------------------------------------------------------------
(* getPropertyById and the watchlist page.                                 *)

\* the ids a watchlist may hold: two known properties and one id the
\* inventory does not have
WatchIds == {1, 2, InventorySize + 1}

MaxWatchlist == 3       \* longest watchlist explored

\* GET /properties/{id} (backend, design 6: getProperty(id) -> Property or
\* NotFound), for the properties deleted so far
LookupOutcomes(id, deleted) ==
    (IF id \in Ids \ deleted THEN {"ok"} ELSE {"notfound"}) \cup {"network"}

\* (variant: the failure is passed on to the caller)
GetPropertyByIdReturn_Rethrow(id, outcome) ==
    IF outcome = "ok"
    THEN [settled |-> "fulfilled", value |-> Some(TransformProperty(RawProperty(id)))]
    ELSE [settled |-> "rejected", value |-> None]

\* getPropertyById: how its promise settles; the value is the property
\* or None for undefined
GetPropertyByIdReturn(id, outcome) ==
    IF outcome = "ok"
    THEN [settled |-> "fulfilled", value |-> Some(TransformProperty(RawProperty(id)))]
    ELSE [settled |-> "fulfilled", value |-> None]

\* props.filter(p => !!p)
Truthy(v) == v # None

Watchlists ==
    {w \in UNION {[1..n -> WatchIds] : n \in 0..MaxWatchlist} :
        \A i, j \in DOMAIN w : i # j => w[i] # w[j]}

-----------------------------------------------------------------------------
(* Specification SpecWatch: the watchlist page mounted with a watchlist.   *)

InitWatch ==
    /\ call = NoCall
    /\ PageIdle
    /\ ClsIdle
    /\ PgIdle
    /\ ListMounted
    /\ DispIdle /\ ApiIdle /\ AuthIdle /\ OppIdle /\ ChatIdle
    /\ ViewIdle
    /\ \E w \in Watchlists :
          wlp = [pc |-> "mounted", watchlist |-> w, answers |-> <<>>,
                 deleted |-> {}, savedProperties |-> <<>>, loading |-> TRUE]

\* the effect: fetchWatchlist up to its await
FetchWatchlist ==
    /\ wlp.pc = "mounted"
    /\ IF Len(wlp.watchlist) > 0
       THEN wlp' = [wlp EXCEPT !.pc = "waiting", !.loading = TRUE,
                        !.answers = [i \in DOMAIN wlp.watchlist |-> None]]
       ELSE wlp' = [wlp EXCEPT !.pc = "done", !.loading = FALSE,
                        !.savedProperties = <<>>]
    /\ UNCHANGED <<viewVars, oldVars, disp, api, auth, opp, chat>>

\* a property is removed from the inventory while the lookups are on
PropertyDeleted ==
    /\ wlp.pc = "waiting"
    /\ \E id \in (WatchIds \cap Ids) \ wlp.deleted :
          wlp' = [wlp EXCEPT !.deleted = @ \cup {id}]
    /\ UNCHANGED <<viewVars, oldVars, disp, api, auth, opp, chat>>

\* one getPropertyById(id) settles
LookupSettles ==
    /\ wlp.pc = "waiting"
    /\ \E i \in DOMAIN wlp.watchlist :
          /\ wlp.answers[i] = None
          /\ \E o \in LookupOutcomes(wlp.watchlist[i], wlp.deleted) :
                wlp' = [wlp EXCEPT !.answers[i] =
                    Some([outcome |-> o,
                          promise |-> GetPropertyByIdReturn(wlp.watchlist[i], o)])]
    /\ UNCHANGED <<viewVars, oldVars, disp, api, auth, opp, chat>>

\* Promise.all settles: it is rejected when one of the promises is, and
\* then fetchWatchlist ends without touching the state
ShowWatchlist ==
    /\ wlp.pc = "waiting"
    /\ \A i \in DOMAIN wlp.answers : wlp.answers[i] # None
    /\ LET promises == [i \in DOMAIN wlp.answers |-> Val(wlp.answers[i]).promise]
           props == [i \in DOMAIN promises |-> promises[i].value]
           kept == SelectSeq(props, Truthy)
       IN IF \E i \in DOMAIN promises : promises[i].settled = "rejected"
          THEN wlp' = [wlp EXCEPT !.pc = "failed"]
          ELSE wlp' = [wlp EXCEPT !.pc = "done", !.loading = FALSE,
                           !.savedProperties = [n \in DOMAIN kept |-> Val(kept[n])]]
    /\ UNCHANGED <<viewVars, oldVars, disp, api, auth, opp, chat>>

NextWatch == FetchWatchlist \/ PropertyDeleted \/ LookupSettles \/ ShowWatchlist

SpecWatch == InitWatch /\ [][NextWatch]_vars

\* the ids of a sequence of properties
IdsOf(props) == [n \in DOMAIN props |-> props[n].id]

Resolved(i) ==
    /\ wlp.answers[i] # None
    /\ Val(wlp.answers[i]).outcome = "ok"

ResolvedIds == SelectSeq(wlp.watchlist,
                   LAMBDA id : \E i \in DOMAIN wlp.answers :
                                   wlp.watchlist[i] = id /\ Resolved(i))

\* C12: getPropertyById never rejects; it resolves to the property of the
\* id when the backend has it and to undefined when the id is unknown or
\* deleted (or the request failed); once loaded, the watchlist page shows
\* exactly the watchlisted ids that resolved, in watchlist order.
C12_WatchlistShowsResolved ==
    /\ wlp.pc # "failed"
    /\ \A i \in DOMAIN wlp.answers :
          wlp.answers[i] # None =>
             LET a == Val(wlp.answers[i])
                 id == wlp.watchlist[i]
             IN /\ a.promise.settled = "fulfilled"
                /\ a.outcome = "ok" =>
                      /\ id \in Ids
                      /\ a.promise.value = Some(TransformProperty(Inventory[id]))
                /\ a.outcome # "ok" => a.promise.value = None
                /\ id \notin Ids => a.promise.value = None
    /\ wlp.pc = "done" =>
          /\ ~wlp.loading
          /\ IdsOf(wlp.savedProperties) = ResolvedIds

\* a property of the watchlist was not found, and the others are shown
C12_Witness ==
    /\ wlp.pc = "done"
    /\ \E i \in DOMAIN wlp.answers : Val(wlp.answers[i]).outcome = "notfound"
    /\ Len(wlp.savedProperties) >= 1
    /\ Len(wlp.savedProperties) < Len(wlp.watchlist)

-----------------------------------------------------------------------------
(* api/config.ts: apiFetch.  JSON values are records tagged with their     *)
(* type in field t; a text is a sequence of pieces, each a literal string  *)
(* or the JSON text of a value.                                            *)

MaxErrors == 2          \* longest list of field errors in a 422 body

Txt(str) == [k |-> "text", s |-> str]
Json(v) == [k |-> "json", v |-> v]

\* the text is the empty string (JSON text never is)
IsEmptyText(text) == \A n \in DOMAIN text : text[n] = Txt("")

\* array.join(', ')
RECURSIVE JoinComma(_)
JoinComma(texts) ==
    IF Len(texts) = 0 THEN <<>>
    ELSE IF Len(texts) = 1 THEN texts[1]
    ELSE texts[1] \o <<Txt(", ")>> \o JoinComma(Tail(texts))

\* the loc of a field error: missing, empty, or a path of keys
Locs == {None, Some(<<>>), Some(<<"price">>), Some(<<"body", "city">>),
         Some(<<"body", "surface_area">>)}

FieldErrors == [loc : Locs, msg : {"field required", "value is not a valid number"}]

Details ==
    {[t |-> "missing"], [t |-> "null"], [t |-> "number", n |-> 0],
     [t |-> "string", s |-> ""], [t |-> "string", s |-> "Not authenticated"],
     [t |-> "object"]}
    \cup {[t |-> "array", items |-> e] :
             e \in UNION {[1..n -> FieldErrors] : n \in 0..MaxErrors}}

\* what response.json() of an error response gives: a parse failure, or a
\* JSON value (null, or an object with or without detail)
ErrorBodies ==
    {[t |-> "unparseable"], [t |-> "null"]}
    \cup {[t |-> "object", detail |-> d] : d \in Details}

Responses ==
    [ok : {TRUE}, status : {200}, body : {[t |-> "object", detail |-> [t |-> "missing"]]}]
    \cup [ok : {FALSE}, status : {401, 404, 422, 500}, body : ErrorBodies]

\* (variant: the field is taken from the front of loc)
FieldOf_First(e) ==
    IF e.loc = None THEN "Field"
    ELSE IF Len(Val(e.loc)) = 0 THEN "undefined"
    ELSE Val(e.loc)[1]

\* e.loc ? e.loc[e.loc.length - 1] : 'Field'
FieldOf(e) ==
    IF e.loc = None THEN "Field"
    ELSE IF Len(Val(e.loc)) = 0 THEN "undefined"
    ELSE Val(e.loc)[Len(Val(e.loc))]

\* `${field}: ${e.msg}`
FieldErrorText(e) == <<Txt(FieldOf(e)), Txt(": "), Txt(e.msg)>>

\* errorMessage, before the final || : lines 44-62
ErrorMessage(error) ==
    LET d == error.detail IN
    IF d.t = "array"
    THEN JoinComma([n \in DOMAIN d.items |-> FieldErrorText(d.items[n])])
    ELSE IF d.t = "object" THEN <<Json(d)>>
    ELSE IF d.t = "string" THEN <<Txt(d.s)>>
    ELSE <<Json(error)>>

\* what apiFetch throws for a response that is not ok
ApiFetchThrows(response) ==
    LET error == IF response.body.t = "unparseable"
                 THEN [t |-> "object",
                       detail |-> [t |-> "string", s |-> "Unknown error"]]
                 ELSE response.body
    IN IF error.t = "null"
       THEN [name |-> "TypeError",
             message |-> <<Txt("Cannot read properties of null (reading 'detail')")>>]
       ELSE [name |-> "Error",
             message |-> IF IsEmptyText(ErrorMessage(error))
                         THEN <<Txt("API Error: "), Json([t |-> "number", n |-> response.status])>>
                         ELSE ErrorMessage(error)]

-----------------------------------------------------------------------------
(* Specification SpecApi: apiFetch answered with any response.             *)

InitApi ==
    /\ call = NoCall
    /\ PageIdle
    /\ ClsIdle
    /\ PgIdle
    /\ ListMounted
    /\ DispIdle /\ WlpIdle /\ AuthIdle /\ OppIdle /\ ChatIdle
    /\ ViewIdle
    /\ \E r \in Responses :
          api = [pc |-> "waiting", response |-> Some(r), thrown |-> None,
                 returned |-> None]

\* the response arrives: lines 42-67
ApiFetchSettles ==
    /\ api.pc = "waiting"
    /\ LET r == Val(api.response)
       IN IF r.ok
          THEN api' = [api EXCEPT !.pc = "returned", !.returned = Some(r.body)]
          ELSE api' = [api EXCEPT !.pc = "thrown",
                                  !.thrown = Some(ApiFetchThrows(r))]
    /\ UNCHANGED <<viewVars, oldVars, disp, wlp, auth, opp, chat>>

NextApi == ApiFetchSettles

SpecApi == InitApi /\ [][NextApi]_vars

\* the text holds the pieces of part, in a row
Contains(text, part) ==
    \E k \in 0..(Len(text) - Len(part)) :
        \A n \in DOMAIN part : text[k + n] = part[n]

\* the detail of the response is a list of field errors
IsValidationList(r) ==
    /\ r.body.t = "object"
    /\ r.body.detail.t = "array"

\* C13: for a response that is not ok apiFetch throws, returns nothing, and
\* the message of what it throws is not empty; when the detail is a list of
\* field errors the message has, for each error with a loc, the last
\* element of the loc followed by the error's message.
C13_ThrowsWithMessage ==
    api.pc # "waiting" /\ ~Val(api.response).ok =>
        /\ api.pc = "thrown"
        /\ api.returned = None
        /\ api.thrown # None
        /\ ~IsEmptyText(Val(api.thrown).message)
        /\ IsValidationList(Val(api.response)) =>
              \A n \in DOMAIN Val(api.response).body.detail.items :
                 LET e == Val(api.response).body.detail.items[n]
                 IN e.loc # None /\ Len(Val(e.loc)) > 0 =>
                       Contains(Val(api.thrown).message,
                                <<Txt(Val(e.loc)[Len(Val(e.loc))]),
                                  Txt(": "), Txt(e.msg)>>)

\* a 422 with two field errors whose locs are paths was turned into a message
C13_Witness ==
    /\ api.pc = "thrown"
    /\ IsValidationList(Val(api.response))
    /\ LET items == Val(api.response).body.detail.items
       IN /\ Len(items) = 2
          /\ items[1].loc = Some(<<"body", "city">>)
          /\ items[2].loc = Some(<<"body", "surface_area">>)

-----------------------------------------------------------------------------
(* AuthContext (AuthProvider), useWatchlist and ProtectedRoute.            *)
(* The backend side (sessions, accounts, the stored watchlists) follows    *)
(* the endpoints the frontend calls.                                       *)

MaxAuthSteps == 3       \* logins, logouts and toggles explored
MaxUpdates == 2         \* updateWatchlist calls in flight at once

WatchableIds == {1, 2}

IsAdmin(account) == account = "admin"

\* GET /auth/me and the user of POST /auth/login: BackendUser
BackendUser(account, backend) ==
    [id |-> account, name |-> account, email |-> account,
     is_admin |-> IsAdmin(account), watchlist |-> backend[account]]

\* transformUser
TransformUser(backendUser) ==
    [id |-> backendUser.id, name |-> backendUser.name,
     email |-> backendUser.email, watchlist |-> backendUser.watchlist,
     is_admin |-> backendUser.is_admin]

Includes(seq, x) == \E n \in DOMAIN seq : seq[n] = x
Without(seq, x) == SelectSeq(seq, LAMBDA y : y # x)
ToSet(seq) == {seq[n] : n \in DOMAIN seq}

\* (variant: neither toggleWatchlist nor updateWatchlist looks at the user)
ToggleRequest_NoGuard(user, id) ==
    LET watchlist == IF user = None THEN <<>> ELSE Val(user).watchlist
    IN Some([propertyId |-> id,
             action |-> IF Includes(watchlist, id) THEN "remove" ELSE "add",
             user |-> user])

\* toggleWatchlist(id) calling updateWatchlist(id, action): the request it
\* sends with the user of that render, or None when it returns early
ToggleRequest(user, id) ==
    LET isAuthenticated == user # None
        watchlist == IF user = None THEN <<>> ELSE Val(user).watchlist
    IN IF ~isAuthenticated THEN None
       ELSE IF user = None THEN None
       ELSE Some([propertyId |-> id,
                  action |-> IF Includes(watchlist, id) THEN "remove" ELSE "add",
                  user |-> user])

\* how a watchlist request can end: accepted by the backend, answered with
\* a non-OK status (401 without a session, 500), or no answer at all
UpdateOutcomes(session) ==
    (IF session = None THEN {} ELSE {"ok"}) \cup {"status", "network"}

\* POST and DELETE /watchlist/{id} at the backend, for the session's account
BackendUpdate(backend, session, u, outcome) ==
    IF outcome # "ok" THEN backend
    ELSE [backend EXCEPT ![Val(session)] =
             IF u.action = "add"
             THEN (IF Includes(@, u.propertyId) THEN @ ELSE Append(@, u.propertyId))
             ELSE Without(@, u.propertyId)]

\* updateWatchlist after its await: the user it sets, from the user it
\* captured.  apiPost throws for a non-OK status, fetch does not.
UpdateWatchlistSets(current, u, outcome) ==
    LET user == Val(u.user) IN
    IF u.action = "add"
    THEN IF outcome = "ok"
         THEN Some([user EXCEPT !.watchlist = Append(@, u.propertyId)])
         ELSE current
    ELSE IF outcome \in {"ok", "status"}
         THEN Some([user EXCEPT !.watchlist = Without(@, u.propertyId)])
         ELSE current

\* (variant: the admin flag is not looked at)
ProtectedRoute_NoAdminCheck(user, isLoading, adminOnly) ==
    IF isLoading THEN "loading"
    ELSE IF user = None THEN "redirect:/login"
    ELSE "children"

\* ProtectedRoute: what it renders
ProtectedRoute(user, isLoading, adminOnly) ==
    IF isLoading THEN "loading"
    ELSE IF user = None THEN "redirect:/login"
    ELSE IF adminOnly /\ ~Val(user).is_admin THEN "redirect:/"
    ELSE "children"

\* the /admin route of App
AdminRoute == ProtectedRoute(auth.user, auth.isLoading, TRUE)

\* the message of the Error a failed login request ends with
LoginFailures ==
    {ApiFetchThrows([ok |-> FALSE, status |-> 401,
         body |-> [t |-> "object",
                   detail |-> [t |-> "string", s |-> "Invalid email or password"]]]).message,
     <<Txt("Failed to fetch")>>}

\* (variant: the message of the failure is not looked at)
LoginError_Fixed(message) == <<Txt("Login failed")>>

\* err.message || 'Login failed'
LoginError(message) ==
    IF IsEmptyText(message) THEN <<Txt("Login failed")>> ELSE message


-----------------------------------------------------------------------------
(* Specification SpecAuth: the AuthProvider from its mount on, with        *)
(* logins, logouts and watchlist toggles.                                  *)

InitAuth ==
    /\ call = NoCall
    /\ PageIdle
    /\ ClsIdle
    /\ PgIdle
    /\ ListMounted
    /\ DispIdle /\ WlpIdle /\ ApiIdle /\ OppIdle /\ ChatIdle
    /\ ViewIdle
    /\ \E session \in {None} \cup {Some(a) : a \in Accounts} :
          auth = AuthMounted(session)

\* checkAuthStatus after its await
CheckAuthSettles ==
    /\ auth.check = "waiting"
    /\ \E ok \in {b \in BOOLEAN : b => auth.session # None} :
          auth' = [auth EXCEPT
              !.check = "done",
              !.user = IF ok
                       THEN Some(TransformUser(
                                BackendUser(Val(auth.session), auth.backend)))
                       ELSE None,
              !.isLoading = FALSE]
    /\ UNCHANGED <<viewVars, oldVars, disp, wlp, api, opp, chat>>

\* login(email, password) up to its await
Login ==
    /\ auth.steps < MaxAuthSteps
    /\ auth.login.pc # "waiting"
    /\ \E a \in Accounts, pw \in {"right", "wrong"} :
          auth' = [auth EXCEPT
              !.error = None,
              !.isLoading = TRUE,
              !.login = [pc |-> "waiting", email |-> a, password |-> pw,
                         err |-> None, ret |-> None],
              !.steps = @ + 1]
    /\ UNCHANGED <<viewVars, oldVars, disp, wlp, api, opp, chat>>

\* the backend accepts the credentials: login after its await
LoginAccepted ==
    /\ auth.login.pc = "waiting"
    /\ auth.login.password = "right"
    /\ auth' = [auth EXCEPT
           !.session = Some(auth.login.email),
           !.user = Some(TransformUser(
                        BackendUser(auth.login.email, auth.backend))),
           !.isLoading = FALSE,
           !.login.pc = "returned",
           !.login.ret = Some(TRUE)]
    /\ UNCHANGED <<viewVars, oldVars, disp, wlp, api, opp, chat>>

\* the login request fails: the catch and finally of login
LoginFails ==
    /\ auth.login.pc = "waiting"
    /\ \E message \in LoginFailures :
          /\ message = <<Txt("Failed to fetch")>> \/ auth.login.password = "wrong"
          /\ auth' = [auth EXCEPT
                 !.error = Some(LoginError(message)),
                 !.isLoading = FALSE,
                 !.login.pc = "returned",
                 !.login.err = Some(message),
                 !.login.ret = Some(FALSE)]
    /\ UNCHANGED <<viewVars, oldVars, disp, wlp, api, opp, chat>>

\* logout up to its await
Logout ==
    /\ auth.steps < MaxAuthSteps
    /\ auth.user # None
    /\ ~auth.logoutPending
    /\ auth' = [auth EXCEPT !.logoutPending = TRUE, !.steps = @ + 1]
    /\ UNCHANGED <<viewVars, oldVars, disp, wlp, api, opp, chat>>

\* logout after its await: errors are ignored
LogoutSettles ==
    /\ auth.logoutPending
    /\ \E ok \in BOOLEAN :
          auth' = [auth EXCEPT
              !.logoutPending = FALSE,
              !.session = IF ok THEN None ELSE @,
              !.user = None]
    /\ UNCHANGED <<viewVars, oldVars, disp, wlp, api, opp, chat>>

\* a heart is clicked: toggleWatchlist(id)
ToggleWatchlist ==
    /\ auth.steps < MaxAuthSteps
    /\ Len(auth.updates) < MaxUpdates
    /\ \E id \in WatchableIds :
          LET req == ToggleRequest(auth.user, id)
          IN auth' = [auth EXCEPT
                 !.toggles = @ + 1,
                 !.steps = @ + 1,
                 !.alerts = IF auth.user = None THEN @ + 1 ELSE @,
                 !.updates = IF req = None THEN @ ELSE Append(@, Val(req))]
    /\ UNCHANGED <<viewVars, oldVars, disp, wlp, api, opp, chat>>

\* one updateWatchlist call gets past its await
UpdateSettles ==
    /\ \E i \in DOMAIN auth.updates :
       \E outcome \in UpdateOutcomes(auth.session) :
          LET u == auth.updates[i]
          IN auth' = [auth EXCEPT
                 !.updates = RemoveAt(@, i),
                 !.backend = BackendUpdate(@, auth.session, u, outcome),
                 !.user = IF u.user = None THEN @
                          ELSE UpdateWatchlistSets(@, u, outcome)]
    /\ UNCHANGED <<viewVars, oldVars, disp, wlp, api, opp, chat>>

NextAuth ==
    \/ CheckAuthSettles \/ Login \/ LoginAccepted \/ LoginFails
    \/ Logout \/ LogoutSettles \/ ToggleWatchlist \/ UpdateSettles

SpecAuth == InitAuth /\ [][NextAuth]_vars


\* C14: the admin page is rendered only when the auth check has finished,
\* a user is present and the user is an admin; while isLoading nothing of
\* it is rendered, without a user the route redirects to /login and with a
\* user who is not an admin it redirects to /.
C14_AdminOnlyForAdmins ==
    /\ AdminRoute = "children" =>
          ~auth.isLoading /\ auth.user # None /\ Val(auth.user).is_admin
    /\ auth.isLoading => AdminRoute = "loading"
    /\ ~auth.isLoading /\ auth.user = None => AdminRoute = "redirect:/login"
    /\ ~auth.isLoading /\ auth.user # None /\ ~Val(auth.user).is_admin =>
          AdminRoute = "redirect:/"

\* an admin has logged in and is shown the admin page
C14_Witness ==
    /\ auth.login.ret = Some(TRUE)
    /\ AdminRoute = "children"

\* C15: a toggle made while no user is authenticated sends no request to
\* the backend and leaves the user and the watchlists as they are.
C15_ToggleNeedsUser ==
    [][(auth'.toggles # auth.toggles /\ auth.user = None) =>
          /\ auth'.updates = auth.updates
          /\ auth'.user = auth.user
          /\ auth'.backend = auth.backend]_vars

\* a heart was clicked while nobody was logged in
C15_Witness ==
    /\ auth.alerts > 0
    /\ auth.user = None
    /\ auth.updates = <<>>

\* C16: once every watchlist request has been answered, the watchlist of
\* the logged-in user is the watchlist the backend holds for that account.
C16_WatchlistInSync ==
    (/\ auth.user # None
     /\ auth.updates = <<>>
     /\ auth.check = "done"
     /\ auth.session = Some(Val(auth.user).id))
    => ToSet(Val(auth.user).watchlist) = ToSet(auth.backend[Val(auth.user).id])


\* C19: a login call clears error when it starts; when it returns,
\* isLoading is false; it returns true only when the backend accepted the
\* credentials, and user is then the user of the response; when the
\* request failed it returns false, error is the message of the failure
\* and user is what it was.
C19_LoginContract ==
    [][/\ (auth.login.pc # "waiting" /\ auth'.login.pc = "waiting") =>
             auth'.error = None
       /\ (auth.login.pc = "waiting" /\ auth'.login.pc = "returned") =>
             /\ auth'.login.ret \in {Some(TRUE), Some(FALSE)}
             /\ auth'.isLoading = FALSE
             /\ auth'.login.ret = Some(TRUE) =>
                   /\ auth.login.password = "right"
                   /\ auth'.user = Some(TransformUser(
                          BackendUser(auth.login.email, auth.backend)))
                   /\ auth'.error = None
             /\ auth'.login.ret = Some(FALSE) =>
                   /\ auth'.user = auth.user
                   /\ auth'.login.err # None
                   /\ auth'.error = auth'.login.err]_vars

\* a login failed while a user was present
C19_Witness ==
    /\ auth.login.pc = "returned"
    /\ auth.login.ret = Some(FALSE)
    /\ auth.error # None
    /\ auth.user # None
    /\ ~auth.isLoading

-----------------------------------------------------------------------------
(* ChatWidget and api/chatService.ts.                                      *)

MaxChatSteps == 5       \* keystroke and send events explored

\* what the user may have typed
InputTexts == {"", "   ", "hello", "what is the price?", "where is it?"}

\* the suggestions offered while there are no messages
Suggestions(context) ==
    IF context = "property"
    THEN {"Show me similar properties", "Tell me about this neighborhood"}
    ELSE {"Find undervalued apartments in Amman"}

\* text.trim()
Trim(text) == IF text \in {"", "   "} THEN "" ELSE text

\* msg.includes(word), for the lower-cased texts above
IncludesWord(text, word) ==
    <<text, word>> \in {<<"hello", "hello">>,
                        <<"what is the price?", "price">>,
                        <<"where is it?", "where">>,
                        <<"Tell me about this neighborhood", "neighborhood">>,
                        <<"Tell me about this neighborhood", "hi">>}

IncludesAny(text, words) == \E w \in words : IncludesWord(text, w)

\* msgText || input
TextToSend(msgText, input) == StrOr(msgText, input)

\* (variant: handleSend does not test for blank text)
HandleSendAccepts_Any(text) == TRUE

\* handleSend goes on after `if (!textToSend.trim()) return`
HandleSendAccepts(text) == Trim(text) # ""

\* getFallbackResponse(request).message; propertyContext is set exactly
\* in the property context
GetFallbackResponse(context, text) ==
    IF context = "property"
    THEN IF IncludesAny(text, {"price", "cost", "value"})
         THEN [kind |-> "fallback: listed price", about |-> text]
         ELSE IF IncludesAny(text, {"location", "where", "neighborhood"})
         THEN [kind |-> "fallback: location", about |-> text]
         ELSE IF IncludesAny(text, {"bed", "bath", "size"})
         THEN [kind |-> "fallback: features", about |-> text]
         ELSE [kind |-> "fallback: focused on this property", about |-> text]
    ELSE IF IncludesAny(text, {"hello", "hi"})
         THEN [kind |-> "fallback: hello", about |-> text]
         ELSE [kind |-> "fallback: unavailable", about |-> text]

\* sendChatMessage(request).message: the backend's response, or the
\* fallback when the request failed
SendChatMessageReturn(context, text, ok) ==
    IF ok THEN [kind |-> "response", about |-> text]
    ELSE GetFallbackResponse(context, text)

UserMsg(text) == [sender |-> "user", content |-> [kind |-> "text", about |-> text]]
BotMsg(content) == [sender |-> "rema", content |-> content]

\* handleSend(e, msgText) up to its await
HandleSend(msgText) ==
    LET textToSend == TextToSend(msgText, chat.input)
    IN IF ~HandleSendAccepts(textToSend)
       THEN chat' = [chat EXCEPT !.calls = @ + 1, !.steps = @ + 1]
       ELSE chat' = [chat EXCEPT
                !.calls = @ + 1, !.steps = @ + 1,
                !.messages = Append(@, UserMsg(textToSend)),
                !.input = "",
                !.isTyping = TRUE,
                !.pending = Some(textToSend)]

-----------------------------------------------------------------------------
(* Specification SpecChat: the chat widget in either context.  The submit  *)
(* button is disabled while isTyping, and the suggestions are there only   *)
(* while there are no messages.                                            *)

InitChat ==
    /\ call = NoCall
    /\ PageIdle
    /\ ClsIdle
    /\ PgIdle
    /\ ListMounted
    /\ DispIdle /\ WlpIdle /\ ApiIdle /\ AuthIdle /\ OppIdle
    /\ ViewIdle
    /\ \E context \in {"global", "property"} : chat = ChatMounted(context)

\* the input's onChange
TypeInput ==
    /\ chat.steps < MaxChatSteps
    /\ \E text \in InputTexts \ {chat.input} :
          chat' = [chat EXCEPT !.input = text, !.steps = @ + 1]
    /\ UNCHANGED <<viewVars, oldVars, disp, wlp, api, auth, opp>>

\* the form's onSubmit.  The button is also disabled for blank input; a
\* submit with blank input is let through to handleSend, which tests the
\* text itself.
SubmitForm ==
    /\ chat.steps < MaxChatSteps
    /\ ~chat.isTyping
    /\ HandleSend(Absent)
    /\ UNCHANGED <<viewVars, oldVars, disp, wlp, api, auth, opp>>

\* a suggestion is clicked
ClickSuggestion ==
    /\ chat.steps < MaxChatSteps
    /\ chat.messages = <<>>
    /\ \E suggestion \in Suggestions(chat.context) : HandleSend(suggestion)
    /\ UNCHANGED <<viewVars, oldVars, disp, wlp, api, auth, opp>>

\* sendChatMessage settles: handleSend after its await
ChatSettles ==
    /\ chat.pending # None
    /\ \E ok \in BOOLEAN :
          chat' = [chat EXCEPT
              !.messages = Append(@, BotMsg(
                  SendChatMessageReturn(chat.context, Val(chat.pending), ok))),
              !.isTyping = FALSE,
              !.pending = None]
    /\ UNCHANGED <<viewVars, oldVars, disp, wlp, api, auth, opp>>

NextChat == TypeInput \/ SubmitForm \/ ClickSuggestion \/ ChatSettles

SpecChat == InitChat /\ [][NextChat]_vars

IsAnswerTo(bot, user) ==
    /\ bot.sender = "rema"
    /\ bot.content.about = user.content.about
    /\ bot.content.kind # "text"

\* C20: the messages are pairs of a user's message and the one assistant
\* message that answers it, in that order, the last pair lacking its answer
\* exactly while the request is on; isTyping is true exactly while the
\* request is on; no message and no request has blank text.
C20_SendThenOneAnswer ==
    /\ \A n \in DOMAIN chat.messages :
          IF n % 2 = 1
          THEN /\ chat.messages[n].sender = "user"
               /\ Trim(chat.messages[n].content.about) # ""
          ELSE IsAnswerTo(chat.messages[n], chat.messages[n - 1])
    /\ chat.isTyping <=> chat.pending # None
    /\ chat.pending # None <=> Len(chat.messages) % 2 = 1
    /\ chat.pending # None =>
          /\ Trim(Val(chat.pending)) # ""
          /\ chat.messages[Len(chat.messages)].content.about = Val(chat.pending)
    /\ Len(chat.messages) <= 2 * chat.calls

\* two sends were answered, one by the fallback, and a blank send was made
C20_Witness ==
    /\ Len(chat.messages) = 4
    /\ ~chat.isTyping
    /\ chat.calls = 3
    /\ \E n \in DOMAIN chat.messages :
          chat.messages[n].content.kind \notin {"text", "response"}

-----------------------------------------------------------------------------
(* The opportunities feed (backend, design 4.4 step 4): the undervalued    *)
(* properties whose discount is at least min_discount, largest discount    *)
(* first.                                                                  *)

OppInventorySize == 30  \* number of undervalued properties in the feed

OppIds == 1..OppInventorySize

\* the stored property number i of the feed: discounts of 75, 60, 80, 70
\* and 85 percent
OppRawProperty(i) ==
    LET price == Cycle(<<25, 40, 20, 30, 15>>, i)
        v == Classify(Some(price), StoredPrediction)
    IN [RawProperty(i) EXCEPT !.price = price,
                              !.predicted_price = Some(StoredPrediction),
                              !.valuation = v.valuation,
                              !.valuation_percentage = v.valuation_percentage]

OppInventory == [i \in OppIds |-> OppRawProperty(i)]

\* largest discount first, ties by id
OppSorted ==
    [n \in OppIds |->
        CHOOSE x \in OppIds :
            Cardinality({y \in OppIds :
                Before("valuation", OppInventory[y], OppInventory[x])}) = n - 1]

Eligible(p, q) ==
    /\ p.valuation = "undervalued"
    /\ q.min_discount = None
          \/ AbsInt(Val(p.valuation_percentage)) >= 10 * Val(q.min_discount)
    /\ Matches(p, [search |-> q.search, city |-> q.city, type |-> q.type,
                   listing |-> q.listing, min_price |-> None,
                   max_price |-> q.max_price, bedrooms |-> q.bedrooms,
                   bathrooms |-> Absent])

\* GET /properties/opportunities?...
ListOpportunities(q) ==
    LET ids == SelectSeq(OppSorted, LAMBDA id : Eligible(OppInventory[id], q))
    IN  ListPage([n \in 1..Len(ids) |-> OppInventory[ids[n]]],
                 IF q.page = None THEN 1 ELSE Val(q.page),
                 IF q.limit = None THEN BackendPageSize ELSE Val(q.limit))

-----------------------------------------------------------------------------
(* OpportunitiesPage and getOpportunities.                                 *)

DISCOUNT_OPTIONS == {50, 60, 70, 80}

OppFilterValues ==
    [listingFilter |-> {"", "buy", "rent"}, cityFilter |-> {"", "Amman"},
     typeFilter |-> {"", "apartment"}]

\* the state a request of the opportunities page is built from
OppUiState(o, page) ==
    [minDiscount |-> o.minDiscount, search |-> o.debouncedSearch,
     listingFilter |-> o.listingFilter, cityFilter |-> o.cityFilter,
     typeFilter |-> o.typeFilter, page |-> page]

\* fetchOpportunities: the params object
OppFetchParams(ui) ==
    [limit |-> Some(ITEMS_PER_PAGE),
     page |-> Some(ui.page),
     min_discount |-> Some(ui.minDiscount),
     search |-> IF ui.search # "" THEN ui.search ELSE Absent,
     listing |-> IF ui.listingFilter # ""
                 THEN (IF ui.listingFilter = "buy" THEN "sale"
                       ELSE ui.listingFilter)
                 ELSE Absent,
     city |-> IF ui.cityFilter # "" THEN ui.cityFilter ELSE Absent,
     type |-> IF ui.typeFilter # "" THEN ui.typeFilter ELSE Absent,
     max_price |-> None,
     bedrooms |-> Absent]

\* getOpportunities: only truthy filter values go into the query string
GetOpportunitiesQuery(f) ==
    [search |-> StrOr(f.search, Absent),
     city |-> StrOr(f.city, Absent),
     type |-> StrOr(f.type, Absent),
     listing |-> StrOr(f.listing, Absent),
     min_discount |-> IF f.min_discount = Some(0) THEN None ELSE f.min_discount,
     max_price |-> IF f.max_price = Some(0) THEN None ELSE f.max_price,
     bedrooms |-> StrOr(f.bedrooms, Absent),
     limit |-> IF f.limit = Some(0) THEN None ELSE f.limit,
     page |-> IF f.page = Some(0) THEN None ELSE f.page]

\* getOpportunities: what it returns for a 200 response
GetOpportunitiesReturn(response) ==
    [items |-> MapTransform(response.items),
     total |-> response.total,
     page |-> response.page,
     pages |-> response.pages,
     hasNext |-> response.has_next,
     hasPrev |-> response.has_prev]

OppRequest(ui) == [ui |-> ui, query |-> GetOpportunitiesQuery(OppFetchParams(ui))]

\* (variant: the fetch effect of the render that still has the old page
\*  number runs last)
OppRequestsAfterChange_StaleLast(o) ==
    IF o.currentPage = 1
    THEN <<OppRequest(OppUiState(o, 1))>>
    ELSE <<OppRequest(OppUiState(o, 1)),
           OppRequest(OppUiState(o, o.currentPage))>>

\* The effects that follow a change of minDiscount, debouncedSearch or a
\* filter, o being the state with the change made: the fetch effect runs
\* with the page number of that render, the reset effect sets currentPage
\* to 1, and if that changed it the fetch effect runs once more.
OppRequestsAfterChange(o) ==
    IF o.currentPage = 1
    THEN <<OppRequest(OppUiState(o, 1))>>
    ELSE <<OppRequest(OppUiState(o, o.currentPage)),
           OppRequest(OppUiState(o, 1))>>

\* the page state after a change and the effects that follow it
OppAfterChange(o) ==
    [o EXCEPT !.inflight = @ \o OppRequestsAfterChange(o),
              !.currentPage = 1,
              !.loading = TRUE]


\* listingFilter || cityFilter || typeFilter || searchQuery
HasActiveFilters(o) ==
    o.listingFilter # "" \/ o.cityFilter # "" \/ o.typeFilter # ""
        \/ o.searchQuery # ""

OppCanChange(o) ==
    /\ o.mounted
    /\ o.steps < MaxSteps
    /\ Len(o.inflight) + Len(OppRequestsAfterChange(o)) <= MaxInflight

\* a discount button: setMinDiscount(option.value)
SetMinDiscount ==
    /\ \E v \in DISCOUNT_OPTIONS \ {opp.minDiscount} :
          LET o == [opp EXCEPT !.minDiscount = v, !.steps = @ + 1]
          IN OppCanChange(opp) /\ opp' = OppAfterChange(o)
    /\ UNCHANGED <<viewVars, oldVars, disp, wlp, api, auth, chat>>

\* one of the three dropdowns
SetOppFilter ==
    /\ \E k \in DOMAIN OppFilterValues :
       \E v \in OppFilterValues[k] \ {opp[k]} :
          LET o == [opp EXCEPT ![k] = v, !.steps = @ + 1]
          IN OppCanChange(opp) /\ opp' = OppAfterChange(o)
    /\ UNCHANGED <<viewVars, oldVars, disp, wlp, api, auth, chat>>

\* clearFilters: the three filters and the search box are emptied
ClearFilters ==
    /\ HasActiveFilters(opp)
    /\ OppCanChange(opp)
    /\ LET o == [opp EXCEPT !.listingFilter = "", !.cityFilter = "",
                            !.typeFilter = "", !.searchQuery = "",
                            !.timers = IF opp.searchQuery = "" THEN @
                                       ELSE TimersAfterChange(@, ""),
                            !.steps = @ + 1]
       IN IF <<opp.listingFilter, opp.cityFilter, opp.typeFilter>> = <<"", "", "">>
          THEN opp' = o
          ELSE opp' = OppAfterChange(o)
    /\ UNCHANGED <<viewVars, oldVars, disp, wlp, api, auth, chat>>

\* typing in the search box
OppTypeSearch ==
    /\ opp.mounted
    /\ opp.steps < MaxSteps
    /\ \E v \in SearchTexts \ {opp.searchQuery} :
          opp' = [opp EXCEPT !.searchQuery = v,
                             !.timers = TimersAfterChange(@, v),
                             !.steps = @ + 1]
    /\ UNCHANGED <<viewVars, oldVars, disp, wlp, api, auth, chat>>

\* a timeout fires: setDebouncedSearch(searchQuery)
OppDebounceFires ==
    /\ opp.mounted
    /\ \E i \in DOMAIN opp.timers :
          LET o == [opp EXCEPT !.timers = RemoveAt(@, i),
                               !.debouncedSearch = opp.timers[i]]
          IN IF opp.timers[i] = opp.debouncedSearch
             THEN opp' = o
             ELSE opp' = OppAfterChange(o)
    /\ UNCHANGED <<viewVars, oldVars, disp, wlp, api, auth, chat>>

\* a page button, Previous or Next
OppGoToPage ==
    /\ opp.mounted
    /\ opp.steps < MaxSteps
    /\ Len(opp.inflight) < MaxInflight
    /\ ~opp.loading
    /\ Len(opp.opportunities) > 0
    /\ opp.totalPages > 1
    /\ \E n \in (1..opp.totalPages) \ {opp.currentPage} :
          opp' = [opp EXCEPT
              !.currentPage = n,
              !.inflight = Append(@, OppRequest(OppUiState(opp, n))),
              !.loading = TRUE,
              !.steps = @ + 1]
    /\ UNCHANGED <<viewVars, oldVars, disp, wlp, api, auth, chat>>

\* a request is answered 200
OppResponseOk ==
    /\ opp.mounted
    /\ \E i \in DOMAIN opp.inflight :
          LET r == GetOpportunitiesReturn(ListOpportunities(opp.inflight[i].query))
          IN opp' = [opp EXCEPT
                 !.opportunities = r.items,
                 !.totalPages = r.pages,
                 !.totalCount = r.total,
                 !.topDeal = IF Len(r.items) > 0 THEN Some(r.items[1]) ELSE @,
                 !.loading = FALSE,
                 !.inflight = RemoveAt(@, i)]
    /\ UNCHANGED <<viewVars, oldVars, disp, wlp, api, auth, chat>>

\* a request fails: the catch block empties the list
OppResponseFail ==
    /\ opp.mounted
    /\ \E i \in DOMAIN opp.inflight :
          opp' = [opp EXCEPT !.opportunities = <<>>,
                             !.loading = FALSE,
                             !.inflight = RemoveAt(@, i)]
    /\ UNCHANGED <<viewVars, oldVars, disp, wlp, api, auth, chat>>

NextOpp ==
    \/ SetMinDiscount \/ SetOppFilter \/ ClearFilters \/ OppTypeSearch
    \/ OppDebounceFires \/ OppGoToPage \/ OppResponseOk \/ OppResponseFail

-----------------------------------------------------------------------------
(* Specification SpecBrowse: the router shows the properties page or the   *)
(* opportunities page.                                                     *)

InitOpp ==
    /\ call = NoCall
    /\ PageIdle
    /\ ClsIdle
    /\ PgIdle
    /\ ListMounted
    /\ DispIdle /\ WlpIdle /\ ApiIdle /\ AuthIdle /\ ChatIdle
    /\ ViewIdle
    /\ opp = OppMounted(OppRequest(OppUiState(OppMounted(None), 1)))

InitBrowse == InitList \/ InitOpp

NextBrowse ==
    \/ SetFilter \/ ResetFilters \/ SetSort \/ TypeSearch \/ DebounceFires
    \/ GoToPage \/ ResponseOk \/ ResponseFail
    \/ SetMinDiscount \/ SetOppFilter \/ ClearFilters \/ OppTypeSearch
    \/ OppDebounceFires \/ OppGoToPage \/ OppResponseOk \/ OppResponseFail

SpecBrowse == InitBrowse /\ [][NextBrowse]_vars


-----------------------------------------------------------------------------
(* Properties of the two list pages.                                       *)

\* what the list request of each page is built from, besides the page number
ListParams == <<filters, sortBy, debouncedSearch>>

OppParams ==
    <<opp.minDiscount, opp.debouncedSearch, opp.listingFilter, opp.cityFilter,
      opp.typeFilter>>

\* C17: on the properties page and on the opportunities page, every step
\* that changes the debounced search text, a filter, the minimum discount or
\* the sort key leaves currentPage at 1 and issues at least one list request,
\* and the last request it issues is built from the new values and asks for
\* page 1.
C17_ChangeResetsPage ==
    [][ /\ ListParams' # ListParams =>
              /\ currentPage' = 1
              /\ Len(inflight') > Len(inflight)
              /\ LET r == inflight'[Len(inflight')]
                 IN  /\ r.ui = UiState(filters', sortBy', debouncedSearch', 1)
                     /\ r.query = GetPropertiesQuery(FetchParams(r.ui))
                     /\ r.query.page = Some(1)
        /\ OppParams' # OppParams =>
              /\ opp'.currentPage = 1
              /\ Len(opp'.inflight) > Len(opp.inflight)
              /\ LET r == opp'.inflight[Len(opp'.inflight)]
                 IN  /\ r.ui = OppUiState(opp', 1)
                     /\ r.query = GetOpportunitiesQuery(OppFetchParams(r.ui))
                     /\ r.query.page = Some(1)
                     /\ r.query.min_discount = Some(opp'.minDiscount)
      ]_vars

\* a change was made on the opportunities page while page 2 was shown: the
\* request of the render that still had page 2 is followed by one for page 1
C17_Witness ==
    /\ opp.mounted
    /\ opp.currentPage = 1
    /\ Len(opp.inflight) >= 2
    /\ LET n == Len(opp.inflight)
       IN  /\ opp.inflight[n - 1].ui.page = 2
           /\ opp.inflight[n].ui = [opp.inflight[n - 1].ui EXCEPT !.page = 1]
           /\ opp.inflight[n].ui = OppUiState(opp, 1)


-----------------------------------------------------------------------------
(* Specification FairBrowse: SpecBrowse where a pending timeout fires,     *)
(* sooner or later (setTimeout with a delay of 300 ms).                    *)

FairBrowse ==
    /\ SpecBrowse
    /\ WF_vars(DebounceFires)
    /\ WF_vars(OppDebounceFires)

\* the requests a step adds to those in flight
Issued(before, after) ==
    {after[i] : i \in (Len(before) + 1)..Len(after)}

\* at most one timeout is pending, it holds the current search text, and
\* without one the debounced text is the search text
OneTimer(pending, query, debounced) ==
    /\ Len(pending) <= 1
    /\ pending # <<>> => pending[1] = query
    /\ pending = <<>> => debounced = query

\* C18: on both list pages at most one timeout is pending, and it is the one
\* set by the latest change of searchQuery; debouncedSearch changes only in
\* a step where that timeout fires, and then becomes searchQuery; every list
\* request issued carries the debounced text, never a text that was typed
\* over before its timeout fired; and from some point on debouncedSearch
\* equals searchQuery for good.
C18_Debounce ==
    /\ [](/\ OneTimer(timers, searchQuery, debouncedSearch)
          /\ OneTimer(opp.timers, opp.searchQuery, opp.debouncedSearch))
    /\ [][ /\ debouncedSearch' # debouncedSearch =>
                 /\ timers = <<searchQuery>>
                 /\ timers' = <<>>
                 /\ debouncedSearch' = searchQuery
           /\ \A r \in Issued(inflight, inflight') :
                 r.ui.search = debouncedSearch'
           /\ opp'.debouncedSearch # opp.debouncedSearch =>
                 /\ opp.timers = <<opp.searchQuery>>
                 /\ opp'.timers = <<>>
                 /\ opp'.debouncedSearch = opp.searchQuery
           /\ \A r \in Issued(opp.inflight, opp'.inflight) :
                 r.ui.search = opp'.debouncedSearch
         ]_vars
    /\ <>[](/\ debouncedSearch = searchQuery
            /\ opp.debouncedSearch = opp.searchQuery)

\* the user typed a text, the timeout set by that change fired, and the
\* request for the text is in flight
C18_Witness ==
    /\ ListShown
    /\ searchQuery = "amm"
    /\ debouncedSearch = "amm"
    /\ timers = <<>>
    /\ inflight # <<>>
    /\ inflight[Len(inflight)].ui.search = "amm"


-----------------------------------------------------------------------------
(* Specification SpecNav: getPageNumbers of the two list pages, evaluated  *)
(* for any page of any page count.                                         *)

MaxNavPages == 12       \* page counts 1..MaxNavPages are explored

\* an entry of the returned list: a page number, or '...'
PageEntry(n) == Some(n)
Ellipsis == None

\* for (let i = a; i <= b; i++) pages.push(i)
PushRange(a, b) == [i \in 1..(b - a + 1) |-> PageEntry(a + i - 1)]

Max2(a, b) == IF a > b THEN a ELSE b
Min2(a, b) == IF a < b THEN a ELSE b

\* (variant: the leading '...' is pushed one page too early)
LeadingEllipsis_Early(current) == current > 2

\* if (currentPage > 3) pages.push('...')
LeadingEllipsis(current) == current > 3

\* if (currentPage < totalPages - 2) pages.push('...')
TrailingEllipsis(current, total) == current < total - 2

\* getPageNumbers (the same function on both pages: maxVisible + 2 = 7)
GetPageNumbers(current, total) ==
    IF total <= 7
    THEN PushRange(1, total)
    ELSE <<PageEntry(1)>>
         \o (IF LeadingEllipsis(current) THEN <<Ellipsis>> ELSE <<>>)
         \o PushRange(Max2(2, current - 1), Min2(total - 1, current + 1))
         \o (IF TrailingEllipsis(current, total) THEN <<Ellipsis>> ELSE <<>>)
         \o <<PageEntry(total)>>

InitNav ==
    /\ call = NoCall
    /\ PageIdle
    /\ ClsIdle
    /\ PgIdle
    /\ ListMounted
    /\ DispIdle /\ WlpIdle /\ ApiIdle /\ AuthIdle /\ OppIdle /\ ChatIdle
    /\ CardIdle
    /\ \E t \in 1..MaxNavPages : \E c \in 1..t :
          nav = [currentPage |-> c, totalPages |-> t, out |-> None]

\* the pagination bar is rendered
RendersPageNumbers ==
    /\ nav.out = None
    /\ nav' = [nav EXCEPT !.out = Some(GetPageNumbers(nav.currentPage,
                                                       nav.totalPages))]
    /\ UNCHANGED <<oldVars, moreVars, card>>

NextNav == RendersPageNumbers

SpecNav == InitNav /\ [][NextNav]_vars

\* the page numbers of a list, in order
NumbersOf(list) == SelectSeq(list, LAMBDA e : e # Ellipsis)

IsIn(n, list) == \E i \in DOMAIN list : list[i] = PageEntry(n)

\* C21: for 1 <= currentPage <= totalPages, getPageNumbers returns the
\* pages 1..totalPages when totalPages <= 7; otherwise its numbers are
\* strictly increasing from 1 to totalPages and include currentPage and
\* those of currentPage - 1 and currentPage + 1 that are pages, and a '...'
\* stands exactly between two consecutive numbers that are not adjacent.
C21_PageNumbers ==
    nav.out # None =>
        LET list == Val(nav.out)
            c == nav.currentPage
            t == nav.totalPages
            nums == NumbersOf(list)
        IN  IF t <= 7
            THEN list = [i \in 1..t |-> PageEntry(i)]
            ELSE /\ \A i \in 1..(Len(nums) - 1) : Val(nums[i]) < Val(nums[i + 1])
                 /\ nums[1] = PageEntry(1)
                 /\ nums[Len(nums)] = PageEntry(t)
                 /\ IsIn(c, list)
                 /\ c - 1 >= 1 => IsIn(c - 1, list)
                 /\ c + 1 <= t => IsIn(c + 1, list)
                 /\ list[1] # Ellipsis /\ list[Len(list)] # Ellipsis
                 /\ \A i \in 1..(Len(list) - 1) :
                       IF list[i] = Ellipsis
                       THEN /\ list[i + 1] # Ellipsis
                            /\ Val(list[i + 1]) - Val(list[i - 1]) > 1
                       ELSE list[i + 1] # Ellipsis =>
                                Val(list[i + 1]) = Val(list[i]) + 1

\* a page in the middle of a long list: both '...' entries are present
C21_Witness ==
    /\ nav.out # None
    /\ nav.totalPages > 7
    /\ nav.currentPage = 5
    /\ Len(Val(nav.out)) = 7
    /\ Val(nav.out)[2] = Ellipsis
    /\ Val(nav.out)[6] = Ellipsis


-----------------------------------------------------------------------------
(* Specification SpecCard: a property of any raw type is fetched through   *)
(* getProperties (transformProperty) and shown on a PropertyCard.          *)

\* FilterSidebar.typeOptions, without the empty "any type" option
SidebarTypes ==
    {"apartment", "town house", "villas and palaces", "whole building",
     "farms and chalets"}

\* the raw type values explored
RawTypes ==
    SidebarTypes \cup {"farm", "chalet", "commercial", "studio", "land",
                       "Villa"}

\* formatPropertyType: its typeMap
TypeLabels ==
    [t \in {"apartment", "town house", "villas and palaces", "whole building",
            "farms and chalets", "studio", "villa", "land", "commerecial"} |->
        CASE t = "apartment" -> "Apartment"
          [] t = "town house" -> "Town House"
          [] t = "villas and palaces" -> "Villa / Palace"
          [] t = "whole building" -> "Whole Building"
          [] t = "farms and chalets" -> "Farm / Chalet"
          [] t = "studio" -> "Studio"
          [] t = "villa" -> "Villa"
          [] t = "land" -> "Land"
          [] t = "commerecial" -> "Commercial"]

\* formatPropertyType: typeMap[type?.toLowerCase()] || type || 'Property'
FormatPropertyType(type) ==
    IF type # Absent /\ LowerCase(type) \in DOMAIN TypeLabels
    THEN TypeLabels[LowerCase(type)]
    ELSE StrOr(type, "Property")

\* PropertyCard: the type label, of the property as transformProperty made it
CardTypeLabel(data) == FormatPropertyType(TransformProperty(data).type)

InitCard ==
    /\ call = NoCall
    /\ PageIdle
    /\ ClsIdle
    /\ PgIdle
    /\ ListMounted
    /\ DispIdle /\ WlpIdle /\ ApiIdle /\ AuthIdle /\ OppIdle /\ ChatIdle
    /\ NavIdle
    /\ \E i \in Ids : \E t \in RawTypes :
          card = [data |-> Some([RawProperty(i) EXCEPT !.type = t]),
                  out |-> None]

\* the card of the fetched property is rendered
RendersCard ==
    /\ card.out = None
    /\ card' = [card EXCEPT !.out = Some(CardTypeLabel(Val(card.data)))]
    /\ UNCHANGED <<oldVars, moreVars, nav>>

NextCard == RendersCard

SpecCard == InitCard /\ [][NextCard]_vars

\* the raw types that the table of normalizeType maps to another type
ExplicitCollapses == {"farm", "chalet", "commercial"}

\* C22: a property whose raw type is one the sidebar offers is labelled on
\* its card with the label formatPropertyType has for that type, and the
\* type a fetched property carries differs from its raw type only for farm,
\* chalet and commercial.
C22_OwnTypeLabel ==
    card.out # None =>
        LET raw == Val(card.data).type
        IN  /\ raw \in SidebarTypes => card.out = Some(TypeLabels[raw])
            /\ TransformProperty(Val(card.data)).type # LowerCase(raw) =>
                  raw \in ExplicitCollapses


-----------------------------------------------------------------------------
(* The direction word of the calculator's valuation card.                  *)

\* {result.valuation === 'undervalued' ? ' lower ' : ' higher '}
DirectionWord(res) == IF res.valuation = "undervalued" THEN "lower" ELSE "higher"

\* the card shows the result of the asking price that is in the form
ResultIsForForm ==
    /\ ValuationCardShown
    /\ call.pc = "returned"
    /\ result = call.ret
    /\ Val(call.data).price = Some(formData.userPrice)

\* C23: when the valuation card is shown for an asking price > 0 and a
\* predicted price > 0, its text says "lower" exactly when the asking price
\* is below the predicted price and "higher" exactly when it is above.
C23_DirectionPreserved ==
    (ResultIsForForm /\ Val(result).predicted > 0) =>
        LET word == DirectionWord(Val(result))
            asking == formData.userPrice
            predicted == Val(result).predicted
        IN  /\ word = "lower" <=> asking < predicted
            /\ word = "higher" <=> asking > predicted


-----------------------------------------------------------------------------
(* Responses that arrive out of order.                                     *)

\* the request issued last: the one built from the state the page is in
LatestRequest == ListRequest(UiState(filters, sortBy, debouncedSearch, currentPage))

OppLatestRequest == OppRequest(OppUiState(opp, opp.currentPage))

\* C24: once no list request is in flight any more and the answer applied
\* last was a 200, the items, the page count and the total count shown are
\* those of the answer to the request issued last, on the properties page
\* and on the opportunities page.
C24_LatestRequestShown ==
    /\ (ListShown /\ inflight = <<>> /\ shown # None /\ Val(shown).ok) =>
          LET r == GetPropertiesReturn(ListProperties(LatestRequest.query))
          IN  /\ properties = r.items
              /\ totalPages = r.pages
              /\ totalCount = r.total
    /\ (opp.mounted /\ opp.inflight = <<>> /\ opp.opportunities # <<>>) =>
          LET r == GetOpportunitiesReturn(
                       ListOpportunities(OppLatestRequest.query))
          IN  /\ opp.opportunities = r.items
              /\ opp.totalPages = r.pages
              /\ opp.totalCount = r.total


-----------------------------------------------------------------------------
(* The 'Top Discount' and 'Starting Price' stats of the opportunities page. *)

\* the two StatCards: '-' for both without a top deal
TopDealStats(topDeal) ==
    IF topDeal = None THEN None
    ELSE Some([discount |-> TopDiscountPercent(Val(topDeal)),
               price |-> Val(topDeal).price])

\* the opportunity with the largest discount among those that match the
\* filters the page is in: the first item of page 1 of the feed
BestMatch ==
    LET first == ListOpportunities(OppRequest(OppUiState(opp, 1)).query)
    IN  IF first.total = 0 THEN None
        ELSE Some(TransformProperty(first.items[1]))

\* the page shows the answer to the request issued last, none in flight
OppSettled ==
    /\ opp.mounted
    /\ opp.inflight = <<>>
    /\ LET r == GetOpportunitiesReturn(
                    ListOpportunities(OppLatestRequest.query))
       IN  /\ opp.opportunities = r.items
           /\ opp.totalPages = r.pages
           /\ opp.totalCount = r.total

\* C25: when the opportunities page shows the answer to its latest request,
\* the two stats are those of the opportunity with the largest discount
\* among the matches of the current filters, whichever page is displayed,
\* and show no deal when nothing matches.
C25_StatsOfBestMatch ==
    OppSettled => TopDealStats(opp.topDeal) = TopDealStats(BestMatch)

=============================================================================
